---- MODULE Spec2Model ----
(***************************************************************************)
(* Model of the WaveSpeed ComfyUI predictor node                           *)
(* (py/wavespeed_predictor.py): WaveSpeedAIPredictor.generate, its         *)
(* parameter assembly, and the output selection _select_smart_output.      *)
(*                                                                         *)
(* Python strings are sequences of tokens (a token is an indivisible run   *)
(* of characters), so that substring, prefix and suffix tests are computed *)
(* on the text and not assumed.  Python dicts are sequences of             *)
(* [k, v] entries in insertion order.                                      *)
(***************************************************************************)
EXTENDS Integers, Sequences, FiniteSets, TLC

(***************************************************************************)
(* Bounds                                                                  *)
(***************************************************************************)
MaxOutputs == 3
MaxKwargs == 2

(***************************************************************************)
(* Generic sequence helpers                                                *)
(***************************************************************************)
Range(s) == {s[i] : i \in 1..Len(s)}

SeqsUpTo(S, n) == UNION {[1..m -> S] : m \in 0..n}

\* index of the first element of s satisfying P, 0 when there is none
FirstIndex(s, P(_)) ==
  IF \E i \in 1..Len(s) : P(s[i])
  THEN CHOOSE i \in 1..Len(s) : P(s[i]) /\ \A j \in 1..(i-1) : ~P(s[j])
  ELSE 0

(***************************************************************************)
(* Text: str.lower() and the substring / prefix tests of the selector      *)
(***************************************************************************)
\* str.lower() on one token
LowerTok(t) ==
  CASE t = ".MP4"     -> ".mp4"
    [] t = ".PNG"     -> ".png"
    [] t = ".OBJ"     -> ".obj"
    [] t = "HTTPS://" -> "https://"
    [] t = "Image"    -> "image"
    [] t = "MASK"     -> "mask"
    [] t = "Video"    -> "video"
    [] t = "AUDIO"    -> "audio"
    [] OTHER          -> t

lower(s) == [i \in 1..Len(s) |-> LowerTok(s[i])]

\* "ext in text" for an extension token
Contains(text, ext) == \E i \in 1..Len(text) : text[i] = ext

\* text.startswith(prefix) for a one-token prefix
startswith(text, prefix) == Len(text) >= 1 /\ text[1] = prefix

VIDEO_EXTS    == {".mp4", ".mov", ".avi", ".mkv", ".webm"}
IMAGE_EXTS    == {".jpg", ".jpeg", ".png", ".gif", ".webp"}
AUDIO_EXTS    == {".mp3", ".wav", ".m4a", ".flac"}
MODEL_3D_EXTS == {".glb", ".gltf", ".obj", ".ply", ".fbx", ".stl", ".usdz", ".dae", ".3ds"}

(***************************************************************************)
(* API output items: a Python value that is a str (isStr) with its text,   *)
(* or a non-string (dict, list, number) whose printed form is toks         *)
(***************************************************************************)
Str(toks)    == [isStr |-> TRUE,  toks |-> toks]
NonStr(toks) == [isStr |-> FALSE, toks |-> toks]
NoItem       == NonStr(<<>>)

isinstance_str(o) == o.isStr

_is_video_url(url) ==
  IF ~isinstance_str(url) THEN FALSE
  ELSE \E ext \in VIDEO_EXTS : Contains(lower(url.toks), ext)

_is_image_url(url) ==
  IF ~isinstance_str(url) THEN FALSE
  ELSE \E ext \in IMAGE_EXTS : Contains(lower(url.toks), ext)

_is_audio_url(url) ==
  IF ~isinstance_str(url) THEN FALSE
  ELSE \E ext \in AUDIO_EXTS : Contains(lower(url.toks), ext)

_is_3d_model_url(url) ==
  IF ~isinstance_str(url) THEN FALSE
  ELSE \E ext \in MODEL_3D_EXTS : Contains(lower(url.toks), ext)

\* what _select_smart_output returns: None, one item, or a list of items
RNone       == [tag |-> "none", item |-> NoItem, list |-> <<>>]
RItem(o)    == [tag |-> "item", item |-> o,      list |-> <<>>]
RList(l)    == [tag |-> "list", item |-> NoItem, list |-> l]

IsVideoOut(o) == isinstance_str(o) /\ _is_video_url(o)
IsImageOut(o) == isinstance_str(o) /\ _is_image_url(o)
IsAudioOut(o) == isinstance_str(o) /\ _is_audio_url(o)
IsNotHttpOut(o) ==
  ~isinstance_str(o) \/ ~(startswith(o.toks, "http://") \/ startswith(o.toks, "https://"))

\* line 1105: any(isinstance(o, str) and self._is_3d_model_url(o) for o in raw_outputs)
has_3d_model_first_only(outs) == isinstance_str(outs[1]) /\ _is_3d_model_url(outs[1])
has_3d_model(outs) ==
  \E j \in 1..Len(outs) : isinstance_str(outs[j]) /\ _is_3d_model_url(outs[j])

\* lines 1113-1139: Video > Images > Audio > Text, else the first output
priority_select_images_first(outs) ==
  LET image_urls == SelectSeq(outs, IsImageOut) IN
  IF image_urls # <<>>
  THEN (IF Len(image_urls) = 1 THEN RItem(image_urls[1]) ELSE RList(image_urls))
  ELSE IF FirstIndex(outs, IsVideoOut) # 0
    THEN RItem(outs[FirstIndex(outs, IsVideoOut)])
  ELSE IF FirstIndex(outs, IsAudioOut) # 0
    THEN RItem(outs[FirstIndex(outs, IsAudioOut)])
  ELSE IF FirstIndex(outs, IsNotHttpOut) # 0
    THEN RItem(outs[FirstIndex(outs, IsNotHttpOut)])
  ELSE RItem(outs[1])
priority_select(outs) ==
  IF FirstIndex(outs, IsVideoOut) # 0
  THEN RItem(outs[FirstIndex(outs, IsVideoOut)])
  ELSE LET image_urls == SelectSeq(outs, IsImageOut) IN
    IF image_urls # <<>>
    THEN (IF Len(image_urls) = 1 THEN RItem(image_urls[1]) ELSE RList(image_urls))
    ELSE IF FirstIndex(outs, IsAudioOut) # 0
      THEN RItem(outs[FirstIndex(outs, IsAudioOut)])
    ELSE IF FirstIndex(outs, IsNotHttpOut) # 0
      THEN RItem(outs[FirstIndex(outs, IsNotHttpOut)])
    ELSE RItem(outs[1])

\* raw_outputs is [present, val]: present = FALSE is Python None
_select_smart_output_3d_before_single(raw_outputs) ==
  IF ~raw_outputs.present \/ raw_outputs.val = <<>> THEN RNone
  ELSE LET outs == raw_outputs.val IN
    IF has_3d_model(outs) THEN RList(outs)
    ELSE IF Len(outs) = 1 THEN RItem(outs[1])
    ELSE priority_select(outs)
_select_smart_output(raw_outputs) ==
  IF ~raw_outputs.present \/ raw_outputs.val = <<>> THEN RNone
  ELSE LET outs == raw_outputs.val IN
    IF Len(outs) = 1 THEN RItem(outs[1])
    ELSE IF has_3d_model(outs) THEN RList(outs)
    ELSE priority_select(outs)

(***************************************************************************)
(* WaveSpeedOutputProcessor.process_outputs (lines 575-649)                *)
(***************************************************************************)
\* the 3-D extensions process_outputs tests (line 617)
PROCESS_3D_EXTS == {".glb", ".gltf", ".obj", ".ply", ".fbx", ".stl"}

EmptyText == Str(<<>>)
\* an IMAGE tensor made of the pictures behind these URLs, or None
ImageTensor(urls) == [converted |-> TRUE,  urls |-> urls]
NoImage           == [converted |-> FALSE, urls |-> <<>>]

HasExt(o, exts) == \E ext \in exts : Contains(lower(o.toks), ext)

\* the branch of the if / elif chain (lines 600-632) an output takes
output_branch(o) ==
  IF ~isinstance_str(o) THEN "text"
  ELSE IF HasExt(o, VIDEO_EXTS) THEN "video"
  ELSE IF HasExt(o, IMAGE_EXTS) THEN "image"
  ELSE IF HasExt(o, AUDIO_EXTS) THEN "audio"
  ELSE IF HasExt(o, PROCESS_3D_EXTS) THEN "3d"
  ELSE IF ~(\/ startswith(o.toks, "http://") \/ startswith(o.toks, "https://")
            \/ startswith(o.toks, "ftp://")  \/ startswith(o.toks, "data:"))
       THEN "text"
  ELSE "skip"

\* "if not x: x = output" over the outputs of one branch: the first one that
\* is not empty, else ""
first_of(outs, branch) ==
  LET hits == SelectSeq(outs, LAMBDA o : output_branch(o) = branch /\ o.toks # <<>>)
  IN IF hits = <<>> THEN EmptyText ELSE hits[1]

process_outputs(outputs) ==
  LET outs   == IF outputs.present THEN outputs.val ELSE <<>>
      images == SelectSeq(outs, LAMBDA o : output_branch(o) = "image")
      model_3d_url == first_of(outs, "3d")
      has_3d == model_3d_url # EmptyText
  IN [video_url       |-> first_of(outs, "video"),
      image           |-> IF has_3d THEN NoImage
                          ELSE IF images # <<>> THEN ImageTensor(images) ELSE NoImage,
      audio_url       |-> first_of(outs, "audio"),
      text            |-> first_of(outs, "text"),
      first_image_url |-> IF images # <<>> THEN images[1] ELSE EmptyText,
      image_urls      |-> images,
      model_3d_url    |-> model_3d_url]

(***************************************************************************)
(* WaveSpeedAIPreview.preview_universal (wavespeed_preview.py)             *)
(***************************************************************************)
PREVIEW_VIDEO_EXTS == {".mp4", ".mov", ".avi", ".mkv", ".webm", ".flv", ".wmv"}
PREVIEW_IMAGE_EXTS == {".jpg", ".jpeg", ".png", ".gif", ".webp", ".bmp", ".svg"}
PREVIEW_AUDIO_EXTS == {".mp3", ".wav", ".m4a", ".flac", ".ogg", ".aac"}
PREVIEW_3D_EXTS    == {".glb", ".gltf", ".obj", ".ply", ".fbx", ".stl", ".usdz", ".dae", ".3ds"}

\* str.strip(): the blank tokens at both ends are dropped
RECURSIVE lstrip(_)
lstrip(toks) == IF toks # <<>> /\ toks[1] = " " THEN lstrip(Tail(toks)) ELSE toks
RECURSIVE rstrip(_)
rstrip(toks) ==
  IF toks # <<>> /\ toks[Len(toks)] = " " THEN rstrip(SubSeq(toks, 1, Len(toks) - 1))
  ELSE toks
strip(toks) == rstrip(lstrip(toks))

preview_is_image_url(url) == isinstance_str(url) /\ HasExt(url, PREVIEW_IMAGE_EXTS)
preview_is_3d_model_url_six(url) == isinstance_str(url) /\ HasExt(url, PROCESS_3D_EXTS)
preview_is_3d_model_url(url) == isinstance_str(url) /\ HasExt(url, PREVIEW_3D_EXTS)

\* _detect_media_type_from_url: by extension, else by the Content-Type a HEAD
\* request gives (content_type is "none" when the request fails)
_detect_media_type_from_url(url, content_type) ==
  IF HasExt(url, PREVIEW_VIDEO_EXTS) THEN "video"
  ELSE IF HasExt(url, PREVIEW_IMAGE_EXTS) THEN "image"
  ELSE IF HasExt(url, PREVIEW_AUDIO_EXTS) THEN "audio"
  ELSE IF HasExt(url, PREVIEW_3D_EXTS) THEN "3d"
  ELSE IF content_type \in {"video", "image", "audio", "3d", "text"} THEN content_type
  ELSE "text"

\* one entry of result["ui"]["media_data"]
Entry(type, urls) == [type |-> type, urls |-> urls]
PreviewResult(ui, image, video) == [ui |-> ui, image |-> image, video |-> video]

\* Case 2 (lines 147-183): a str
preview_string(o, content_type, video_ok) ==
  LET text == Str(strip(o.toks)) IN
  IF startswith(text.toks, "http://") \/ startswith(text.toks, "https://")
  THEN LET media_type == _detect_media_type_from_url(text, content_type)
       IN PreviewResult(<<Entry(media_type, <<text>>)>>,
                        IF media_type = "image" THEN ImageTensor(<<text>>) ELSE NoImage,
                        media_type = "video" /\ video_ok)
  ELSE PreviewResult(<<Entry("text", <<text>>)>>, NoImage, FALSE)

\* media_input is what generate returned: None, one item or a list
preview_universal(media_input, content_type, video_ok) ==
  IF media_input.tag = "none" \/ (media_input.tag = "item" /\ media_input.item = EmptyText)
  THEN PreviewResult(<<>>, NoImage, FALSE)
  ELSE IF media_input.tag = "list" THEN
    LET url_list == SelectSeq(media_input.list,
                              LAMBDA o : isinstance_str(o) /\ strip(o.toks) # <<>>)
        image_urls    == SelectSeq(url_list, preview_is_image_url)
        model_3d_urls == SelectSeq(url_list, preview_is_3d_model_url)
    IN IF url_list = <<>> THEN PreviewResult(<<>>, NoImage, FALSE)
       ELSE IF \E j \in 1..Len(url_list) : preview_is_3d_model_url(url_list[j])
       THEN PreviewResult(
              (IF image_urls = <<>> THEN <<>>
               ELSE IF Len(image_urls) > 1 THEN <<Entry("image_gallery", image_urls)>>
               ELSE <<Entry("image", <<image_urls[1]>>)>>)
              \o [j \in 1..Len(model_3d_urls) |-> Entry("3d", <<model_3d_urls[j]>>)],
              NoImage, FALSE)
       ELSE IF (\A j \in 1..Len(url_list) : preview_is_image_url(url_list[j]))
               /\ Len(url_list) > 1
       THEN PreviewResult(<<Entry("image_gallery", url_list)>>, ImageTensor(url_list), FALSE)
       ELSE preview_string(url_list[1], content_type, video_ok)
  ELSE IF isinstance_str(media_input.item)
  THEN preview_string(media_input.item, content_type, video_ok)
  ELSE PreviewResult(<<Entry("text", <<media_input.item>>)>>, NoImage, FALSE)

(***************************************************************************)
(* Python values of the parameter pipeline.  t is the Python type, s the   *)
(* text (of a str, or the repr of a number / bool / media object), l the   *)
(* elements of a list.                                                     *)
(***************************************************************************)
PyNone       == [t |-> "none",   s |-> <<>>, l |-> <<>>, shape |-> <<>>]
PyStr(toks)  == [t |-> "str",    s |-> toks, l |-> <<>>, shape |-> <<>>]
PyInt(toks)  == [t |-> "int",    s |-> toks, l |-> <<>>, shape |-> <<>>]
PyFloat(toks)== [t |-> "float",  s |-> toks, l |-> <<>>, shape |-> <<>>]
PyBool(toks) == [t |-> "bool",   s |-> toks, l |-> <<>>, shape |-> <<>>]
PyList(l)    == [t |-> "list",   s |-> <<>>, l |-> l,    shape |-> <<>>]
\* a torch tensor / numpy array: its identity and its shape
Tensor(id, shape) == [t |-> "tensor", s |-> <<id>>, l |-> <<>>, shape |-> shape]
\* a ComfyUI AUDIO dict {"waveform": ..., "sample_rate": ...}
AudioDict(id)== [t |-> "audio",  s |-> <<id>>, l |-> <<>>, shape |-> <<>>]
\* a callable (VHS_AUDIO)
Callable(id) == [t |-> "callable", s |-> <<id>>, l |-> <<>>, shape |-> <<>>]

EmptyStr == PyStr(<<>>)
EmptyList == PyList(<<>>)

\* bool(value)
truthy(v) ==
  CASE v.t = "none"  -> FALSE
    [] v.t = "str"   -> v.s # <<>>
    [] v.t = "int"   -> v.s # <<"0">>
    [] v.t = "float" -> v.s # <<"0", ".0">>
    [] v.t = "bool"  -> v.s = <<"True">>
    [] v.t = "list"  -> v.l # <<>>
    [] OTHER         -> TRUE

\* str(value)
str(v) == IF v.t = "str" THEN v ELSE
          IF v.t = "list" THEN PyStr(<<"[..]">>) ELSE PyStr(v.s)

\* the texts float() parses
DecimalToks == {"0", "1", "2", "512", "1024"}
IsFloatText(toks) == Len(toks) = 1 /\ toks[1] \in DecimalToks

(***************************************************************************)
(* dicts: sequences of [k, v] entries in insertion order, keys unique      *)
(***************************************************************************)
Keys(d) == {d[i].k : i \in 1..Len(d)}
Has(d, k) == \E i \in 1..Len(d) : d[i].k = k
Get(d, k) == d[CHOOSE i \in 1..Len(d) : d[i].k = k].v
\* d[k] = v
Put(d, k, v) ==
  IF Has(d, k) THEN [i \in 1..Len(d) |-> IF d[i].k = k THEN [k |-> k, v |-> v] ELSE d[i]]
  ELSE Append(d, [k |-> k, v |-> v])
E(k, v) == [k |-> k, v |-> v]

(***************************************************************************)
(* Field names are strings: sequences of tokens.  "s", "_" and the digits  *)
(* are one-character tokens; no other token ends in "s".                   *)
(***************************************************************************)
Digits == {"0", "1", "2", "3", "4", "5", "6", "7", "8", "9"}
DigitVal(c) == CASE c = "0" -> 0 [] c = "1" -> 1 [] c = "2" -> 2 [] c = "3" -> 3
                 [] c = "4" -> 4 [] c = "5" -> 5 [] c = "6" -> 6 [] c = "7" -> 7
                 [] c = "8" -> 8 [] c = "9" -> 9

\* int("<digits>")
RECURSIVE int(_)
int(ds) == IF ds = <<>> THEN 0
           ELSE int(SubSeq(ds, 1, Len(ds) - 1)) * 10 + DigitVal(ds[Len(ds)])

IsPrefix(p, name) == Len(p) <= Len(name) /\ SubSeq(name, 1, Len(p)) = p
IsSuffix(x, name) == Len(x) <= Len(name) /\ SubSeq(name, Len(name) - Len(x) + 1, Len(name)) = x
DropPrefix(p, name) == SubSeq(name, Len(p) + 1, Len(name))

\* name.rstrip('s')
RECURSIVE rstrip_s(_)
rstrip_s(name) ==
  IF name # <<>> /\ name[Len(name)] = "s" THEN rstrip_s(SubSeq(name, 1, Len(name) - 1))
  ELSE name

\* name.rsplit('_', 1): [0] and [1] for a name that contains '_'
LastUnderscore(name) == CHOOSE i \in 1..Len(name) :
                          name[i] = "_" /\ \A j \in (i+1)..Len(name) : name[j] # "_"
rsplit_head(name) == SubSeq(name, 1, LastUnderscore(name) - 1)
rsplit_tail(name) == SubSeq(name, LastUnderscore(name) + 1, Len(name))

\* the array parameter's singular form: images -> image
singular_prefix(array_param_name) ==
  IF array_param_name # <<>> /\ array_param_name[Len(array_param_name)] = "s"
  THEN SubSeq(array_param_name, 1, Len(array_param_name) - 1)
  ELSE array_param_name

\* re.compile('^' + prefix + '_?(\d+)$').match(key): the digits of the
\* match, <<>> when the key does not match
pattern_match(prefix, key) ==
  IF ~IsPrefix(prefix, key) THEN <<>>
  ELSE LET rest == DropPrefix(prefix, key)
           ds   == IF rest # <<>> /\ rest[1] = "_" THEN Tail(rest) ELSE rest
       IN IF ds # <<>> /\ \A i \in 1..Len(ds) : ds[i] \in Digits THEN ds ELSE <<>>


(***************************************************************************)
(* Media inputs, encoding and the upload gateway                           *)
(***************************************************************************)
is_tensor_or_image(value) == value.t = "tensor"
is_audio_dict(value) == value.t = "audio"

\* Results of a call that returns a value or raises: ok, the value, the
\* message of the exception, and whether an HTTP request was sent
Returned(v, sent) == [ok |-> TRUE,  val |-> v,      msg |-> <<>>, sent |-> sent]
Raised(msg, sent) == [ok |-> FALSE, val |-> PyNone, msg |-> msg,  sent |-> sent]

\* audio_dict_to_wav_bytes raises for a missing, empty or >3-D waveform
audio_dict_to_wav_bytes(audio_dict) ==
  IF audio_dict.s = <<"wave_none">> THEN Raised(<<"Audio input missing waveform">>, FALSE)
  ELSE IF audio_dict.s = <<"wave_empty">> THEN Raised(<<"Audio waveform is empty">>, FALSE)
  ELSE Returned(PyStr(audio_dict.s), FALSE)

\* try_get_vhs_audio_bytes: the bytes, or None
try_get_vhs_audio_bytes(value, param_name) ==
  IF value.t # "callable" THEN PyNone
  ELSE IF ~Contains(lower(param_name), "audio") THEN PyNone
  ELSE IF value.s = <<"vhs_bytes">> THEN PyStr(value.s)
  ELSE PyNone

should_force_image_upload(param_name) ==
  LET low == lower(param_name) IN
  IF Contains(low, "video") \/ Contains(low, "audio") THEN FALSE
  ELSE IF Contains(low, "image") \/ Contains(low, "mask") THEN TRUE
  ELSE FALSE

\* wavespeed_config.get_api_key_from_config: the environment variable
\* WAVESPEED_API_KEY if it is set and non-empty, else the api_key of
\* config.json if it is non-empty, else None
get_api_key_from_config(env, config) ==
  IF truthy(env) THEN env
  ELSE IF truthy(config) THEN config
  ELSE PyNone

\* wavespeed_api_endpoints.get_effective_api_key
get_effective_api_key(global_key, env, config) ==
  IF truthy(global_key) THEN global_key
  ELSE get_api_key_from_config(env, config)

\* The JSON body of the upload response.  A field that is absent (or null)
\* is PyNone.
JsonStr(v) == [kind |-> "str", text |-> v, download_url |-> PyNone, url |-> PyNone,
               data_is_dict |-> FALSE, data_download_url |-> PyNone, data_url |-> PyNone]
JsonDict(du, u, isd, ddu, dd) ==
              [kind |-> "dict", text |-> PyNone, download_url |-> du, url |-> u,
               data_is_dict |-> isd, data_download_url |-> ddu, data_url |-> dd]
JsonOther  == [kind |-> "other", text |-> PyNone, download_url |-> PyNone, url |-> PyNone,
               data_is_dict |-> FALSE, data_download_url |-> PyNone, data_url |-> PyNone]

\* a or b
Or(a, b) == IF truthy(a) THEN a ELSE b

NoApiKeyUploadMsg == <<"No API key configured. Please configure your WaveSpeed API key.">>

\* lines 373-379: the "or" chain over the fields of a dict response
url_of_url_first(result) ==
  Or(result.url, Or(result.download_url,
     Or(IF result.data_is_dict THEN result.data_url ELSE PyNone,
        IF result.data_is_dict THEN result.data_download_url ELSE PyNone)))
url_of(result) ==
  Or(result.download_url, Or(result.url,
     Or(IF result.data_is_dict THEN result.data_download_url ELSE PyNone,
        IF result.data_is_dict THEN result.data_url ELSE PyNone)))

\* upload_bytes_to_wavespeed without the credential check of line 356
upload_bytes_to_wavespeed_send_first(key, resp) ==
  IF resp.status # 200 THEN Raised(<<"Upload failed with status ">>, TRUE)
  ELSE IF resp.body.kind = "str" THEN Returned(resp.body.text, TRUE)
  ELSE Raised(<<"Upload API returned no URL: ">>, TRUE)
\* upload_bytes_to_wavespeed with the gateway answering resp = [status, body]
upload_bytes_to_wavespeed(key, resp) ==
  IF ~truthy(key) THEN Raised(NoApiKeyUploadMsg, FALSE)
  ELSE IF resp.status # 200 THEN Raised(<<"Upload failed with status ">>, TRUE)
  ELSE LET result == resp.body IN
    IF result.kind = "str" THEN Returned(result.text, TRUE)
    ELSE IF result.kind = "dict" /\ truthy(url_of(result))
      THEN Returned(url_of(result), TRUE)
    ELSE Raised(<<"Upload API returned no URL: ">>, TRUE)

\* detect_tensor_type (lines 30-116) on the shape of the tensor.  A shape is
\* the sequence of its axis lengths.
detect_rank2_first_axis_only(shape) ==
  IF shape[1] < 10 /\ shape[2] > 1000 THEN "audio" ELSE "image"
detect_rank2(shape) ==
  IF shape[1] < 10 /\ shape[2] > 1000 THEN "audio"
  ELSE IF shape[2] < 10 /\ shape[1] > 1000 THEN "audio"
  ELSE "image"

detect_rank3_audio_first(shape) ==
  IF shape[1] < 10 /\ shape[3] > 1000 THEN "audio" ELSE "image"
detect_rank3(shape) ==
  IF shape[Len(shape)] \in {1, 3, 4} /\ shape[1] > 10 /\ shape[2] > 10 THEN "image"
  ELSE IF shape[1] \in {1, 3, 4} /\ shape[2] > 10 /\ shape[3] > 10 THEN "image"
  ELSE IF shape[1] < 10 /\ shape[3] > 1000 THEN "audio"
  ELSE "image"

detect_tensor_type(tensor_data) ==
  LET shape == tensor_data.shape
      ndim  == Len(shape)
  IN IF ndim = 2 THEN detect_rank2(shape)
     ELSE IF ndim = 3 THEN detect_rank3(shape)
     ELSE IF ndim = 4 THEN (IF shape[1] > 10 THEN "video" ELSE "image")
     ELSE IF ndim = 5 THEN "video"
     ELSE IF ndim = 1 THEN "audio"
     ELSE "image"

\* lines 133-136 of upload_tensor_to_wavespeed: the kind the encoder is
\* chosen by
tensor_type_of_detect_only(tensor_data, force_type) ==
  detect_tensor_type(tensor_data)
tensor_type_of(tensor_data, force_type) ==
  IF force_type \in {"image", "video", "audio"} THEN force_type
  ELSE detect_tensor_type(tensor_data)

\* the encoders of upload_tensor_to_wavespeed raise for an array they cannot
\* write (here: the tensor named "corrupt")
upload_tensor_to_wavespeed(key, tensor_data, force_type, resp) ==
  IF tensor_data.s = <<"corrupt">> THEN Raised(<<"cannot encode tensor">>, FALSE)
  ELSE upload_bytes_to_wavespeed(key, resp)


(***************************************************************************)
(* convert_parameter_value: the "path:scale" shorthand of the type         *)
(* "lora-weight" (lines 533-551), and the scalar item types "number" and   *)
(* "string" (lines 553-567)                                                *)
(***************************************************************************)
\* float(text) succeeds on a decimal number; its value is written with a
\* fraction
FractionToks == {"0.5", "0.8"}
is_float(toks) == Len(toks) = 1 /\ toks[1] \in (DecimalToks \cup FractionToks)
float(toks) == IF toks[1] \in DecimalToks THEN <<toks[1], ".0">> ELSE toks

\* text.split(sep) for a one-token separator
RECURSIVE split(_, _)
split(toks, sep) ==
  IF ~Contains(toks, sep) THEN <<toks>>
  ELSE LET k == CHOOSE k \in 1..Len(toks) :
                  toks[k] = sep /\ \A j \in 1..(k - 1) : toks[j] # sep
       IN <<SubSeq(toks, 1, k - 1)>> \o split(SubSeq(toks, k + 1, Len(toks)), sep)

\* a LoRA entry {"path": path, "scale": scale}
LoraEntry(path, scale) ==
  [t |-> "dict", s |-> <<>>, l |-> <<PyStr(path), PyFloat(scale)>>, shape |-> <<>>]

\* lines 538-546, one pair: the entry it adds, if any
lora_pair_default_scale(pair) ==
  [kept |-> TRUE, entry |-> LoraEntry(strip(split(pair, ":")[1]), <<"1", ".0">>)]
lora_pair(pair) ==
  IF Contains(pair, ":")
  THEN LET k == CHOOSE k \in 1..Len(pair) :
                  pair[k] = ":" /\ \A j \in 1..(k - 1) : pair[j] # ":"
           path      == SubSeq(pair, 1, k - 1)
           scale_str == SubSeq(pair, k + 1, Len(pair))
       IN IF is_float(strip(scale_str))
          THEN [kept |-> TRUE, entry |-> LoraEntry(strip(path), float(strip(scale_str)))]
          ELSE [kept |-> FALSE, entry |-> PyNone]
  ELSE [kept |-> TRUE, entry |-> LoraEntry(strip(pair), <<"1", ".0">>)]

\* lines 533-548: the else branch of the str case
lora_shorthand(value) ==
  IF strip(value) = <<>> THEN <<>>
  ELSE LET raw   == split(value, ",")
           pairs == SelectSeq([j \in 1..Len(raw) |-> strip(raw[j])], LAMBDA q : q # <<>>)
           added == SelectSeq([j \in 1..Len(pairs) |-> lora_pair(pairs[j])],
                              LAMBDA r : r.kept)
       IN [j \in 1..Len(added) |-> added[j].entry]

\* lines 512 and 523: the text, stripped, is wrapped in braces or brackets
looks_like_json(value) ==
  LET v == strip(value) IN
  /\ v # <<>>
  /\ \/ (v[1] = "{" /\ v[Len(v)] = "}")
     \/ (v[1] = "[" /\ v[Len(v)] = "]")

\* a dict, seen through the two keys the conversion asks for: s names its
\* other keys, l holds the values of "path" and "scale", Absent for a key
\* the dict does not have
Absent == [t |-> "absent", s |-> <<>>, l |-> <<>>, shape |-> <<>>]
PyDict(others, path, scale) ==
  [t |-> "dict", s |-> others, l |-> <<path, scale>>, shape |-> <<>>]
EmptyDict == PyDict(<<>>, Absent, Absent)
PyTuple(l) == [t |-> "tuple", s |-> <<>>, l |-> l, shape |-> <<>>]

\* isinstance(item, dict) and 'path' in item and 'scale' in item
has_path_and_scale(item) ==
  item.t = "dict" /\ item.l[1] # Absent /\ item.l[2] # Absent

\* json.loads.  The members between the braces of an object are one token,
\* so a comma token separates the elements of an array.
Parsed(ok, val) == [ok |-> ok, val |-> val]
json_members(tok) ==
  CASE tok = "path:a,scale:1"        -> Parsed(TRUE, PyDict(<<>>, PyStr(<<"a">>), PyInt(<<"1">>)))
    [] tok = "path:b,scale:0.8"      -> Parsed(TRUE, PyDict(<<>>, PyStr(<<"b">>), PyFloat(<<"0.8">>)))
    [] tok = "path:b"                -> Parsed(TRUE, PyDict(<<>>, PyStr(<<"b">>), Absent))
    [] tok = "scale:1"               -> Parsed(TRUE, PyDict(<<>>, Absent, PyInt(<<"1">>)))
    [] tok = "name:x,path:a,scale:1" -> Parsed(TRUE, PyDict(<<"name">>, PyStr(<<"a">>), PyInt(<<"1">>)))
    [] OTHER                         -> Parsed(FALSE, PyNone)
json_value(text) ==
  LET p == strip(text) IN
  IF p = <<"{", "}">> THEN Parsed(TRUE, EmptyDict)
  ELSE IF Len(p) = 3 /\ p[1] = "{" /\ p[3] = "}" THEN json_members(p[2])
  ELSE IF Len(p) = 1 /\ p[1] \in DecimalToks THEN Parsed(TRUE, PyInt(p))
  ELSE Parsed(FALSE, PyNone)
json_array(inner) ==
  LET vals == [j \in 1..Len(split(inner, ",")) |-> json_value(split(inner, ",")[j])] IN
  IF strip(inner) = <<>> THEN Parsed(TRUE, PyList(<<>>))
  ELSE IF \A j \in 1..Len(vals) : vals[j].ok
  THEN Parsed(TRUE, PyList([j \in 1..Len(vals) |-> vals[j].val]))
  ELSE Parsed(FALSE, PyNone)
json_loads(value) ==
  IF strip(value)[1] = "{" THEN json_value(value)
  ELSE json_array(SubSeq(strip(value), 2, Len(strip(value)) - 1))

\* lines 508-532: a str that looks like a JSON object or a JSON array.  A
\* decode error, and the ValueError raised for a missing key, are caught
\* and leave the empty result.
lora_from_json(value) ==
  LET parsed == json_loads(value) IN
  IF strip(value)[1] = "{"
  THEN IF parsed.ok /\ has_path_and_scale(parsed.val) THEN parsed.val ELSE EmptyDict
  ELSE IF parsed.ok /\ \A j \in 1..Len(parsed.val.l) : has_path_and_scale(parsed.val.l[j])
       THEN parsed.val
  ELSE PyList(<<>>)

\* lines 482-551: the type "lora-weight"
lora_weight(value) ==
  IF value.t = "dict"
  THEN IF has_path_and_scale(value) THEN value ELSE EmptyDict
  ELSE IF value.t = "list" THEN PyList(SelectSeq(value.l, has_path_and_scale))
  ELSE IF value.t = "tuple" THEN PyList(value.l)
  ELSE IF value.t = "str"
  THEN IF looks_like_json(value.s) THEN lora_from_json(value.s)
       ELSE PyList(lora_shorthand(value.s))
  ELSE EmptyDict

\* float(value) succeeds on a str holding a decimal number
convert_parameter_value(value, param_type) ==
  IF param_type = "lora-weight" THEN lora_weight(value)
  ELSE IF param_type = "number"
  THEN IF value.t \in {"int", "float", "bool"} THEN value
       ELSE IF value.t = "str" /\ IsFloatText(value.s) THEN PyFloat(value.s \o <<".0">>)
       ELSE value
  ELSE IF value.t = "none" THEN EmptyStr ELSE str(value)

(***************************************************************************)
(* Step 2a of generate: array reconstruction                               *)
(***************************************************************************)
\* str(index) for the indices of the model
IntStr(n) == CASE n = 0 -> "0" [] n = 1 -> "1" [] n = 2 -> "2" [] n = 3 -> "3"
               [] n = 4 -> "4" [] n = 5 -> "5" [] n = 6 -> "6" [] n = 7 -> "7"
               [] n = 8 -> "8" [] n = 9 -> "9" [] OTHER -> "NN"

IsArrayInfo(e) == e.v.is_dict /\ e.v.isArray
array_params_of(param_metadata) == SelectSeq(param_metadata, IsArrayInfo)

\* the loop "for key, value in kwargs.items()" that fills array_members
RECURSIVE array_members_of(_, _)
array_members_of(kw, prefix) ==
  IF kw = <<>> THEN <<>>
  ELSE LET key   == Head(kw).k
           value == Head(kw).v
           ds    == pattern_match(prefix, key)
           rest  == array_members_of(Tail(kw), prefix)
       IN IF ds = <<>> THEN rest
          ELSE IF value = PyNone \/ value = EmptyStr THEN rest
          ELSE <<[index |-> int(ds), value |-> value]>> \o rest

\* list.sort(key=lambda x: x[0]): stable, ascending
sort_by_index_unsorted(ms) == ms
RECURSIVE sort_by_index(_)
sort_by_index(ms) ==
  IF ms = <<>> THEN <<>>
  ELSE LET front  == sort_by_index(SubSeq(ms, 1, Len(ms) - 1))
           m      == ms[Len(ms)]
           before == SelectSeq(front, LAMBDA x : x.index <= m.index)
           after  == SelectSeq(front, LAMBDA x : x.index > m.index)
       IN before \o <<m>> \o after

IsMediaMember(m, prefix) ==
  \/ is_audio_dict(m.value)
  \/ try_get_vhs_audio_bytes(m.value, prefix \o <<IntStr(m.index)>>) # PyNone
  \/ is_tensor_or_image(m.value)

UploadEvent(field, sent_ok) == [op |-> "upload", field |-> field, ok |-> sent_ok]

\* the gateway's answer of a given shape for an uploaded file
UploadShapes == {"500", "url", "empty", "no_url"}
UrlFor(file) == PyStr(<<"https://", "cdn/">> \o file)
MakeResponse(shape, file) ==
  CASE shape = "500"    -> [status |-> 500, body |-> JsonOther]
    [] shape = "url"    -> [status |-> 200, body |-> JsonStr(UrlFor(file))]
    [] shape = "empty"  -> [status |-> 200, body |-> JsonStr(EmptyStr)]
    [] shape = "no_url" -> [status |-> 200, body |-> JsonDict(PyNone, PyNone, FALSE, PyNone, PyNone)]

\* one member of the loop "for index, value in array_members"; a failed
\* upload is logged and the member skipped.  acc = [vals, net, cur]; shapes
\* are the gateway's answers to the uploads this loop makes, in order.
member_step(key, m, prefix, item_type, shapes, acc) ==
  LET name == prefix \o <<IntStr(m.index)>>
      resp == MakeResponse(shapes[acc.cur], m.value.s)
  IN
  IF is_audio_dict(m.value) THEN
    LET enc == audio_dict_to_wav_bytes(m.value)
        up  == IF enc.ok THEN upload_bytes_to_wavespeed(key, resp) ELSE enc
    IN [vals |-> IF up.ok THEN Append(acc.vals, up.val) ELSE acc.vals,
        net  |-> IF up.sent THEN Append(acc.net, UploadEvent(name, up.ok)) ELSE acc.net,
        cur  |-> acc.cur + 1]
  ELSE IF try_get_vhs_audio_bytes(m.value, name) # PyNone THEN
    LET up == upload_bytes_to_wavespeed(key, resp)
    IN [vals |-> IF up.ok THEN Append(acc.vals, up.val) ELSE acc.vals,
        net  |-> IF up.sent THEN Append(acc.net, UploadEvent(name, up.ok)) ELSE acc.net,
        cur  |-> acc.cur + 1]
  ELSE IF is_tensor_or_image(m.value) THEN
    LET force_type == IF should_force_image_upload(name) THEN "image" ELSE "None"
        up == upload_tensor_to_wavespeed(key, m.value, force_type, resp)
    IN [vals |-> IF up.ok THEN Append(acc.vals, up.val) ELSE acc.vals,
        net  |-> IF up.sent THEN Append(acc.net, UploadEvent(name, up.ok)) ELSE acc.net,
        cur  |-> acc.cur + 1]
  ELSE
    LET converted == convert_parameter_value(m.value, item_type)
    IN [vals |-> IF truthy(converted) THEN Append(acc.vals, converted) ELSE acc.vals,
        net  |-> acc.net,
        cur  |-> acc.cur]

RECURSIVE members_loop(_, _, _, _, _, _)
members_loop(key, ms, prefix, item_type, shapes, acc) ==
  IF ms = <<>> THEN acc
  ELSE members_loop(key, Tail(ms), prefix, item_type, shapes,
                    member_step(key, Head(ms), prefix, item_type, shapes, acc))

item_type_of(array_info) == IF array_info.itemType = "absent" THEN "string" ELSE array_info.itemType

\* the loop "for array_param_name, array_info in array_params.items()";
\* st = [rjd, net, cur]
RECURSIVE merge_arrays(_, _, _, _, _)
merge_arrays(key, aps, kw, shapes, st) ==
  IF aps = <<>> THEN st
  ELSE LET array_param_name == Head(aps).k
           prefix  == singular_prefix(array_param_name)
           members == sort_by_index(array_members_of(kw, prefix))
           r == members_loop(key, members, prefix, item_type_of(Head(aps).v), shapes,
                             [vals |-> <<>>, net |-> st.net, cur |-> st.cur])
       IN merge_arrays(key, Tail(aps), kw, shapes,
            [rjd |-> IF r.vals # <<>> THEN Put(st.rjd, array_param_name, PyList(r.vals))
                     ELSE st.rjd,
             net |-> r.net,
             cur |-> r.cur])

\* how many uploads the array loops make
RECURSIVE media_member_count(_, _)
media_member_count(aps, kw) ==
  IF aps = <<>> THEN 0
  ELSE LET prefix == singular_prefix(Head(aps).k)
       IN Len(SelectSeq(array_members_of(kw, prefix), LAMBDA m : IsMediaMember(m, prefix)))
          + media_member_count(Tail(aps), kw)

(***************************************************************************)
(* Step 2b of generate: merge, filter, validate                            *)
(***************************************************************************)
processed_as_array(param_name, aps) ==
  \E j \in 1..Len(aps) : IsPrefix(rstrip_s(aps[j].k) \o <<"_">>, param_name)

RECURSIVE merge_inputs(_, _, _)
merge_inputs(merged, kw, aps) ==
  IF kw = <<>> THEN merged
  ELSE LET param_name  == Head(kw).k
           param_value == Head(kw).v
       IN IF processed_as_array(param_name, aps) THEN merge_inputs(merged, Tail(kw), aps)
          ELSE IF param_value # PyNone /\ param_value # EmptyStr
               THEN merge_inputs(Put(merged, param_name, param_value), Tail(kw), aps)
          ELSE merge_inputs(merged, Tail(kw), aps)

IsEmptyValue_falsy(value) == ~truthy(value)
IsEmptyValue(value) == value = EmptyStr \/ value = EmptyList \/ value = PyNone
filter_params(merged) == SelectSeq(merged, LAMBDA e : ~IsEmptyValue(e.v))

W == <<"_", "width">>
H == <<"_", "height">>
IsSizeKey_height_only(key) == IsSuffix(H, key)
IsSizeKey(key) == IsSuffix(W, key) \/ IsSuffix(H, key)

\* the keys of size_params, in insertion order
RECURSIVE size_names(_)
size_names(params) ==
  IF params = <<>> THEN <<>>
  ELSE LET front == size_names(SubSeq(params, 1, Len(params) - 1))
           key   == params[Len(params)].k
       IN IF IsSizeKey(key) /\ ~(\E j \in 1..Len(front) : front[j] = rsplit_head(key))
          THEN Append(front, rsplit_head(key)) ELSE front

\* 'width' in size_params[size_name]
has_component(params, size_name, component) ==
  \E j \in 1..Len(params) : /\ IsSizeKey(params[j].k)
                            /\ rsplit_head(params[j].k) = size_name
                            /\ rsplit_tail(params[j].k) = <<component>>

size_mismatch_width_only(params, size_name) ==
  has_component(params, size_name, "width") /\ ~has_component(params, size_name, "height")
size_mismatch(params, size_name) ==
  has_component(params, size_name, "width") # has_component(params, size_name, "height")

SizeErrorMsg(params, size_name) ==
  IF has_component(params, size_name, "width")
  THEN <<"Size parameter '">> \o size_name \o <<"': ", "Width is provided but Height is missing.">>
  ELSE <<"Size parameter '">> \o size_name \o <<"': ", "Height is provided but Width is missing.">>

\* the message of the ValueError the size check raises, <<>> when it passes
validate_size(params) ==
  LET names == size_names(params)
      bad   == {j \in 1..Len(names) : size_mismatch(params, names[j])}
  IN IF bad = {} THEN <<>>
     ELSE SizeErrorMsg(params, names[CHOOSE j \in bad : \A x \in bad : j <= x])


(***************************************************************************)
(* WaveSpeedAIPredictor.generate                                           *)
(***************************************************************************)
VARIABLES
  pc,                 \* position in generate
  api_key,            \* generate's local api_key (line 794), None until read
  model_id,           \* argument model_id
  request_json,       \* argument request_json, parsed
  param_map,          \* argument param_map, parsed
  connected,          \* argument **kwargs as passed
  kwargs,             \* the kwargs dict as generate updates it
  request_json_dict,
  i,                  \* index of the Step 1.5 loop over list(kwargs.items())
  merged_params,
  filtered_params,
  net,                \* the HTTP requests sent so far, in order
  response,           \* what send_request returned
  output,             \* what _select_smart_output returned
  error               \* message of the exception generate raised

\* the three places a credential is kept
VARIABLES
  _global_api_key,    \* wavespeed_api_endpoints._global_api_key
  config_api_key,     \* the "api_key" entry of config.json, None when absent
  env_key,            \* os.environ.get('WAVESPEED_API_KEY')
  resolved            \* the last credential resolution: who asked, and the key

genVars == <<pc, api_key, model_id, request_json, param_map, connected, kwargs,
             request_json_dict, i, merged_params, filtered_params, net, response,
             output, error>>
credVars == <<_global_api_key, config_api_key, env_key, resolved>>

\* one call of a function of the module, and what it gave
VARIABLES
  upload_response,    \* upload_bytes_to_wavespeed: the gateway's answer
  upload_result,      \* ... and what the call returned or raised
  classify_call,      \* a tensor on its way to the encoder: who calls, the
                      \* field name, the tensor and the force_type argument
  tensor_type,        \* the kind chosen for it
  processed,          \* what process_outputs made of the outputs
  preview,            \* what the preview node made of generate's output
  convert_call,       \* convert_parameter_value: its arguments
  converted           \* ... and what it returned

callVars == <<upload_response, upload_result, classify_call, tensor_type,
              processed, preview, convert_call, converted>>

\* the catalog cache of wavespeed_api_endpoints and the event loop around it
VARIABLES
  _cache,             \* _cache[key] for the keys set_cache has written
  cache_time,         \* _cache['cache_time']
  _refreshing_keys,
  now,                \* time.time()
  tasks,              \* the refresh tasks create_task made, not yet finished
  waiting,            \* the handlers suspended in "await fetch_...()"
  refreshed,          \* what the fetcher gave the refresh task that ended last
  reply               \* the last response a handler gave

cacheVars == <<_cache, cache_time, _refreshing_keys, now, tasks, waiting,
               refreshed, reply>>

vars == <<genVars, credVars, callVars, cacheVars>>

\* ---- names ---------------------------------------------------------------
n_width       == <<"width">>
n_height      == <<"height">>
n_size_width  == <<"size", "_", "width">>
n_size_height == <<"size", "_", "height">>
n_mask_width  == <<"mask", "_", "width">>
n_images      == <<"image", "s">>
n_image_0     == <<"image", "_", "0">>
n_image1      == <<"image", "1">>
n_image_1     == <<"image", "_", "1">>
n_image2      == <<"image", "2">>
n_image_size  == <<"image", "_", "size">>
n_prompt      == <<"prompt">>
n_seed        == <<"seed">>
n_tags        == <<"tag", "s">>
n_audio       == <<"audio">>
n_enable      == <<"enable">>

\* ---- values --------------------------------------------------------------
urlA   == PyStr(<<"https://", "x/", "urlA">>)
urlB   == PyStr(<<"https://", "x/", "urlB">>)
urlC   == PyStr(<<"https://", "x/", "urlC">>)
i512   == PyInt(<<"512">>)
i0     == PyInt(<<"0">>)
hello  == PyStr(<<"hello">>)
hi     == PyStr(<<"hi">>)
s1024  == PyStr(<<"1024">>)
square == PyStr(<<"square">>)
T1     == Tensor("T1", <<1, 64, 64, 3>>)
Tbad   == Tensor("corrupt", <<1, 64, 64, 3>>)
A1     == AudioDict("A1")
pyFalse == PyBool(<<"False">>)

\* ---- the inputs generate is called with ------------------------------------
\* connected inputs: each is one [k, v]
KwPool == {
  E(n_height, i512),
  E(n_size_width, i512), E(n_size_height, i512), E(n_size_height, EmptyStr),
  E(n_image_0, urlA), E(n_image1, urlB), E(n_image_1, T1), E(n_image2, Tbad),
  E(n_image_size, s1024),
  E(n_prompt, hi), E(n_prompt, PyNone),
  E(n_audio, A1), E(n_audio, AudioDict("wave_none")), E(n_audio, Callable("vhs_bytes")),
  E(n_tags, EmptyList) }

DistinctKeys(d) == \A a, b \in 1..Len(d) : d[a].k = d[b].k => a = b
KwargsSet == {kw \in SeqsUpTo(KwPool, MaxKwargs) : DistinctKeys(kw)}

ArrayInfo(item_type) == [is_dict |-> TRUE, isArray |-> TRUE,  itemType |-> item_type]
PlainInfo            == [is_dict |-> TRUE, isArray |-> FALSE, itemType |-> "string"]

\* a node configuration: the widget defaults (request_json) and the parameter
\* metadata (param_map) the frontend sends for the selected model
Config(rj, pm) == [request_json |-> rj, param_map |-> pm]
Configs == {
  Config(<<>>, <<>>),
  Config(<<E(n_width, i512)>>, <<>>),
  Config(<<E(n_size_width, i512)>>, <<>>),
  Config(<<E(n_prompt, EmptyStr), E(n_seed, i0), E(n_tags, EmptyList)>>,
         <<E(n_prompt, PlainInfo)>>),
  Config(<<E(n_mask_width, i512), E(n_size_height, i512)>>, <<>>),
  Config(<<E(n_prompt, hello), E(n_image_size, square), E(n_enable, pyFalse)>>,
         <<E(n_images, ArrayInfo("string"))>>),
  Config(<<E(n_images, PyList(<<urlC>>)), E(n_seed, PyNone)>>,
         <<E(n_prompt, PlainInfo), E(n_images, ArrayInfo("absent"))>>) }

ApiKeys  == {PyNone, PyStr(<<"sk-key">>)}
ModelIds == {EmptyStr, PyStr(<<"/api/v3/model">>)}

\* what send_request does: raises, or returns a falsy value, or returns the
\* response dict, whose "outputs" may be missing
mp4  == Str(<<"https://", "x/a", ".mp4">>)
png  == Str(<<"https://", "x/b", ".png">>)
glb  == Str(<<"https://", "x/a", ".glb">>)
Outputs(present, val) == [present |-> present, val |-> val]
Response(kind, outs) == [kind |-> kind, outputs |-> outs]
NoResponse == Response("none", Outputs(FALSE, <<>>))
OutputItems == {
  mp4, png, glb,
  Str(<<"https://", "x/c", ".jpg">>),
  Str(<<"https://", "x/d", ".wav">>),
  Str(<<"http://", "x/e", ".MP4">>),
  Str(<<"https://", "x/f", ".OBJ">>),
  Str(<<"https://", "x/page">>),
  Str(<<"hello world">>),
  Str(<<"see ", "b", ".png">>),
  Str(<<"HTTPS://", "x/h">>),
  NonStr(<<"{", ".glb", "}">>),
  NonStr(<<"42">>) }

\* the heterogeneous output lists of the model: every list of at most one
\* item, and two mixed lists
OutputLists == {<<>>} \cup {<<o>> : o \in OutputItems} \cup {<<mp4, png>>, <<glb, png>>}
SendResults ==
  {Response("raise", Outputs(FALSE, <<>>)),
   Response("falsy", Outputs(FALSE, <<>>)),
   Response("dict", Outputs(FALSE, <<>>))}
  \cup {Response("dict", Outputs(TRUE, l)) : l \in OutputLists}

\* ---- messages --------------------------------------------------------------
Wrapped(msg) == <<"WaveSpeedAIPredictor failed: ">> \o msg
NoApiKeyMsg  == <<"No API key configured. Please go to Settings">>
NoModelMsg   == <<"Please select a model first.">>
NoResponseMsg == <<"No response from API">>
TransportMsg == <<"transport error">>

\* what get_api_key_from_config() returns when it is called now: every upload
\* asks again (line 355)
stored_key == get_api_key_from_config(env_key, config_api_key)

NoCall == [by |-> "none", key |-> PyNone]

\* no function is called on its own
NotCalled == [called |-> FALSE]
UploadIdle ==
  /\ upload_response = NotCalled
  /\ upload_result = NotCalled
ClassifyIdle ==
  /\ classify_call = NotCalled
  /\ tensor_type = "none"
PreviewIdle ==
  /\ processed = NotCalled
  /\ preview = NotCalled
ConvertIdle ==
  /\ convert_call = NotCalled
  /\ converted = NotCalled
NoRefresh == [key |-> "", data |-> "None"]
NoReply == [key |-> "", kind |-> "none", data |-> "None"]
CacheIdle ==
  /\ _cache = <<>>
  /\ cache_time = <<>>
  /\ _refreshing_keys = {}
  /\ now = 0
  /\ tasks = <<>>
  /\ waiting = <<>>
  /\ refreshed = NoRefresh
  /\ reply = NoReply
CallIdle ==
  /\ UploadIdle
  /\ ClassifyIdle
  /\ PreviewIdle
  /\ ConvertIdle
  /\ CacheIdle

Init ==
  /\ pc = "start"
  /\ api_key = PyNone
  /\ _global_api_key = PyNone
  /\ env_key = PyNone
  /\ config_api_key \in ApiKeys
  /\ resolved = NoCall
  /\ CallIdle
  /\ model_id \in ModelIds
  /\ \E c \in Configs : request_json = c.request_json /\ param_map = c.param_map
  /\ connected \in KwargsSet
  /\ kwargs = connected
  /\ request_json_dict = <<>>
  /\ i = 0
  /\ merged_params = <<>>
  /\ filtered_params = <<>>
  /\ net = <<>>
  /\ response = NoResponse
  /\ output = RNone
  /\ error = <<>>

\* the exception leaves generate as it was raised, without the prefix
Raise_bare(msg) == pc' = "raised" /\ error' = msg
\* "except Exception as e: raise Exception(f'WaveSpeedAIPredictor failed: {e}')"
Raise(msg) == pc' = "raised" /\ error' = Wrapped(msg)

\* lines 792-821: credential, model check, parsing of the JSON arguments
Begin ==
  /\ pc = "start"
  /\ api_key' = get_api_key_from_config(env_key, config_api_key)
  /\ IF ~truthy(api_key') THEN
       /\ Raise(NoApiKeyMsg)
       /\ UNCHANGED <<request_json_dict, i>>
     ELSE IF ~truthy(model_id) \/ model_id = EmptyStr THEN
       /\ Raise(NoModelMsg)
       /\ UNCHANGED <<request_json_dict, i>>
     ELSE
       /\ request_json_dict' = request_json
       /\ i' = 1
       /\ pc' = IF Len(kwargs) = 0 THEN "arrays" ELSE "uploads"
       /\ UNCHANGED error
  /\ UNCHANGED credVars
  /\ UNCHANGED <<callVars, cacheVars>>
  /\ UNCHANGED <<model_id, request_json, param_map, connected, kwargs,
                 merged_params, filtered_params, net, response, output>>

\* Step 1.5 (lines 827-877), one iteration of the loop over list(kwargs.items())
AfterUpload_log_and_continue(param_name, up, what) ==
  /\ net' = IF up.sent THEN Append(net, UploadEvent(param_name, up.ok)) ELSE net
  /\ kwargs' = IF up.ok THEN Put(kwargs, param_name, up.val) ELSE kwargs
  /\ request_json_dict' = IF up.ok THEN Put(request_json_dict, param_name, up.val)
                          ELSE request_json_dict
  /\ i' = i + 1
  /\ pc' = IF i = Len(kwargs) THEN "arrays" ELSE "uploads"
  /\ UNCHANGED error
AfterUpload(param_name, up, what) ==
  /\ net' = IF up.sent THEN Append(net, UploadEvent(param_name, up.ok)) ELSE net
  /\ IF up.ok THEN
       /\ kwargs' = Put(kwargs, param_name, up.val)
       /\ request_json_dict' = Put(request_json_dict, param_name, up.val)
       /\ i' = i + 1
       /\ pc' = IF i = Len(kwargs) THEN "arrays" ELSE "uploads"
       /\ UNCHANGED error
     ELSE
       /\ Raise(<<"Failed to upload ", what, " for '">> \o param_name \o <<"': ">> \o up.msg)
       /\ UNCHANGED <<kwargs, request_json_dict, i>>

UploadInput ==
  /\ pc = "uploads"
  /\ i <= Len(kwargs)
  /\ LET param_name  == kwargs[i].k
         param_value == kwargs[i].v
     IN
     IF is_audio_dict(param_value) THEN
       \E shape \in UploadShapes :
         LET enc == audio_dict_to_wav_bytes(param_value)
             up  == IF enc.ok
                    THEN upload_bytes_to_wavespeed(stored_key, MakeResponse(shape, param_value.s))
                    ELSE enc
         IN AfterUpload(param_name, up, "AUDIO")
     ELSE IF try_get_vhs_audio_bytes(param_value, param_name) # PyNone THEN
       \E shape \in UploadShapes :
         AfterUpload(param_name,
                     upload_bytes_to_wavespeed(stored_key, MakeResponse(shape, param_value.s)),
                     "VHS_AUDIO")
     ELSE IF is_tensor_or_image(param_value) THEN
       \E shape \in UploadShapes :
         LET force_type == IF should_force_image_upload(param_name) THEN "image" ELSE "None"
         IN AfterUpload(param_name,
                        upload_tensor_to_wavespeed(stored_key, param_value, force_type,
                                                   MakeResponse(shape, param_value.s)),
                        "tensor")
     ELSE
       /\ i' = i + 1
       /\ pc' = IF i = Len(kwargs) THEN "arrays" ELSE "uploads"
       /\ UNCHANGED <<kwargs, request_json_dict, net, error>>
  /\ UNCHANGED credVars
  /\ UNCHANGED <<callVars, cacheVars>>
  /\ UNCHANGED <<api_key, model_id, request_json, param_map, connected,
                 merged_params, filtered_params, response, output>>

\* Step 2a (lines 879-982): array reconstruction
MergeArrays ==
  /\ pc = "arrays"
  /\ LET aps == array_params_of(param_map)
     IN \E shapes \in [1..media_member_count(aps, kwargs) -> UploadShapes] :
          LET st == merge_arrays(stored_key, aps, kwargs, shapes,
                                 [rjd |-> request_json_dict, net |-> net, cur |-> 1])
          IN /\ request_json_dict' = st.rjd
             /\ net' = st.net
  /\ pc' = "merge"
  /\ UNCHANGED credVars
  /\ UNCHANGED <<callVars, cacheVars>>
  /\ UNCHANGED <<api_key, model_id, request_json, param_map, connected, kwargs, i,
                 merged_params, filtered_params, response, output, error>>

\* Step 2b (lines 984-1011): merge the connected inputs over the widget
\* values, then drop the empty values
MergeInputs ==
  /\ pc = "merge"
  /\ merged_params' = merge_inputs(request_json_dict, kwargs, array_params_of(param_map))
  /\ filtered_params' = filter_params(merged_params')
  /\ pc' = "validate"
  /\ UNCHANGED credVars
  /\ UNCHANGED <<callVars, cacheVars>>
  /\ UNCHANGED <<api_key, model_id, request_json, param_map, connected, kwargs,
                 request_json_dict, i, net, response, output, error>>

\* the pairing check only warns, and the request goes out
ValidateSize_warn_only ==
  /\ pc = "validate"
  /\ pc' = "submit"
  /\ UNCHANGED error
  /\ UNCHANGED credVars
  /\ UNCHANGED <<callVars, cacheVars>>
  /\ UNCHANGED <<api_key, model_id, request_json, param_map, connected, kwargs,
                 request_json_dict, i, merged_params, filtered_params, net,
                 response, output>>
\* lines 1013-1031: width/height pairing
ValidateSize ==
  /\ pc = "validate"
  /\ IF validate_size(filtered_params) # <<>>
     THEN Raise(validate_size(filtered_params))
     ELSE pc' = "submit" /\ UNCHANGED error
  /\ UNCHANGED credVars
  /\ UNCHANGED <<callVars, cacheVars>>
  /\ UNCHANGED <<api_key, model_id, request_json, param_map, connected, kwargs,
                 request_json_dict, i, merged_params, filtered_params, net,
                 response, output>>

\* lines 1033-1052: send_request(DynamicRequest(api_path, filtered_params))
DispatchEvent == [op |-> "dispatch", field |-> <<>>, ok |-> TRUE]
Submit ==
  /\ pc = "submit"
  /\ net' = Append(net, DispatchEvent)
  /\ \E r \in SendResults :
       /\ response' = r
       /\ IF r.kind = "raise" THEN Raise(TransportMsg)
          ELSE IF r.kind = "falsy" THEN Raise(NoResponseMsg)
          ELSE pc' = "select" /\ UNCHANGED error
  /\ UNCHANGED credVars
  /\ UNCHANGED <<callVars, cacheVars>>
  /\ UNCHANGED <<api_key, model_id, request_json, param_map, connected, kwargs,
                 request_json_dict, i, merged_params, filtered_params, output>>

\* lines 1054-1070: output selection and return (output,)
SelectOutput ==
  /\ pc = "select"
  /\ output' = _select_smart_output(response.outputs)
  /\ pc' = "done"
  /\ UNCHANGED credVars
  /\ UNCHANGED <<callVars, cacheVars>>
  /\ UNCHANGED <<api_key, model_id, request_json, param_map, connected, kwargs,
                 request_json_dict, i, merged_params, filtered_params, net,
                 response, error>>

\* POST /wavespeed/api/delete_config -> wavespeed_config.delete_api_key().
\* The handler runs on the server's event loop while generate runs in a
\* worker thread; generate reads the stored credential again only while it
\* uploads, so the handler is interleaved there ("idle": no generate runs).
delete_config_endpoint ==
  /\ pc \in {"uploads", "arrays", "idle"}
  /\ config_api_key # PyNone
  /\ config_api_key' = PyNone
  /\ UNCHANGED <<_global_api_key, env_key, resolved>>
  /\ UNCHANGED genVars
  /\ UNCHANGED <<callVars, cacheVars>>

Next ==
  \/ Begin
  \/ UploadInput
  \/ MergeArrays
  \/ MergeInputs
  \/ ValidateSize
  \/ Submit
  \/ SelectOutput
  \/ delete_config_endpoint

Spec == Init /\ [][Next]_vars

(***************************************************************************)
(* _select_smart_output on its own: every output list up to MaxOutputs     *)
(***************************************************************************)
SelectInit ==
  /\ pc = "select"
  /\ response \in {Response("dict", Outputs(TRUE, l)) : l \in SeqsUpTo(OutputItems, MaxOutputs)}
  /\ api_key = PyStr(<<"sk-key">>)
  /\ _global_api_key = PyNone
  /\ env_key = PyNone
  /\ config_api_key = PyStr(<<"sk-key">>)
  /\ resolved = NoCall
  /\ CallIdle
  /\ model_id = PyStr(<<"/api/v3/model">>)
  /\ request_json = <<>>
  /\ param_map = <<>>
  /\ connected = <<>>
  /\ kwargs = <<>>
  /\ request_json_dict = <<>>
  /\ i = 1
  /\ merged_params = <<>>
  /\ filtered_params = <<>>
  /\ net = <<DispatchEvent>>
  /\ output = RNone
  /\ error = <<>>

SelectNext == SelectOutput

SelectSpec == SelectInit /\ [][SelectNext]_vars


(***************************************************************************)
(* The credential store on its own: the runtime key, config.json and the   *)
(* environment, and the two resolutions that read them                     *)
(***************************************************************************)
\* no generate call is running
GenerateIdle ==
  /\ pc = "idle"
  /\ api_key = PyNone
  /\ model_id = EmptyStr
  /\ request_json = <<>>
  /\ param_map = <<>>
  /\ connected = <<>>
  /\ kwargs = <<>>
  /\ request_json_dict = <<>>
  /\ i = 0
  /\ merged_params = <<>>
  /\ filtered_params = <<>>
  /\ net = <<>>
  /\ response = NoResponse
  /\ output = RNone
  /\ error = <<>>

rt_key   == PyStr(<<"rt-key">>)
cfg_key  == PyStr(<<"cfg-key">>)
cfg_key2 == PyStr(<<"cfg-key-2">>)
env_val  == PyStr(<<"env-key">>)

RuntimeKeys == {PyNone, EmptyStr, rt_key}
PostedKeys  == {EmptyStr, cfg_key, cfg_key2}
EnvValues   == {PyNone, EmptyStr, env_val}

CredInit ==
  /\ GenerateIdle
  /\ _global_api_key = PyNone
  /\ config_api_key \in {PyNone, cfg_key}
  /\ env_key \in EnvValues
  /\ resolved = NoCall
  /\ CallIdle

set_global_api_key ==
  /\ pc = "idle"
  /\ \E key \in RuntimeKeys : _global_api_key' = key
  /\ UNCHANGED <<config_api_key, env_key, resolved>>
  /\ UNCHANGED genVars
  /\ UNCHANGED <<callVars, cacheVars>>

\* POST /wavespeed/api/save_config: an empty key is refused, any other is
\* written to config.json by save_api_key
save_config_endpoint ==
  /\ pc = "idle"
  /\ \E posted \in PostedKeys :
       config_api_key' = IF ~truthy(posted) THEN config_api_key ELSE posted
  /\ UNCHANGED <<_global_api_key, env_key, resolved>>
  /\ UNCHANGED genVars
  /\ UNCHANGED <<callVars, cacheVars>>

\* POST /wavespeed/api/upload resolves its key with get_effective_api_key
upload_file_or_tensor ==
  /\ pc = "idle"
  /\ resolved' = [by |-> "route",
                  key |-> get_effective_api_key(_global_api_key, env_key, config_api_key)]
  /\ UNCHANGED <<_global_api_key, config_api_key, env_key>>
  /\ UNCHANGED genVars
  /\ UNCHANGED <<callVars, cacheVars>>

\* the predictor (generate at line 794, upload_bytes_to_wavespeed at line
\* 355) resolves its key with get_api_key_from_config
PredictorKey ==
  /\ pc = "idle"
  /\ resolved' = [by |-> "predictor",
                  key |-> get_api_key_from_config(env_key, config_api_key)]
  /\ UNCHANGED <<_global_api_key, config_api_key, env_key>>
  /\ UNCHANGED genVars
  /\ UNCHANGED <<callVars, cacheVars>>

CredNext ==
  \/ set_global_api_key
  \/ save_config_endpoint
  \/ delete_config_endpoint
  \/ upload_file_or_tensor
  \/ PredictorKey

CredSpec == CredInit /\ [][CredNext]_vars


(***************************************************************************)
(* upload_bytes_to_wavespeed on its own: every shape of the gateway's      *)
(* answer                                                                  *)
(***************************************************************************)
u0 == PyStr(<<"https://", "cdn/", "bare">>)
u1 == PyStr(<<"https://", "cdn/", "download_url">>)
u2 == PyStr(<<"https://", "cdn/", "url">>)
u3 == PyStr(<<"https://", "cdn/", "data.download_url">>)
u4 == PyStr(<<"https://", "cdn/", "data.url">>)

HttpResponse(status, body) == [status |-> status, body |-> body]
UploadBodies ==
  {JsonStr(u0), JsonStr(EmptyStr), JsonOther}
  \cup {JsonDict(du, u, isd, ddu, dd) :
          du \in {PyNone, EmptyStr, u1}, u \in {PyNone, EmptyStr, u2},
          isd \in BOOLEAN, ddu \in {PyNone, u3}, dd \in {PyNone, EmptyStr, u4}}
UploadResponses == {HttpResponse(st, b) : st \in {200, 500}, b \in UploadBodies}

UploadInit ==
  /\ GenerateIdle
  /\ _global_api_key = PyNone
  /\ env_key = PyNone
  /\ config_api_key \in ApiKeys
  /\ resolved = NoCall
  /\ upload_response \in UploadResponses
  /\ upload_result = NotCalled
  /\ ClassifyIdle
  /\ PreviewIdle
  /\ ConvertIdle
  /\ CacheIdle

UploadBytes ==
  /\ pc = "idle"
  /\ upload_response # NotCalled
  /\ upload_result = NotCalled
  /\ upload_result' = upload_bytes_to_wavespeed(stored_key, upload_response)
  /\ UNCHANGED <<upload_response, classify_call, tensor_type, processed, preview,
               convert_call, converted>>
  /\ UNCHANGED <<genVars, credVars, cacheVars>>

UploadNext == UploadBytes

UploadSpec == UploadInit /\ [][UploadNext]_vars


(***************************************************************************)
(* The kind a tensor is encoded as: detect_tensor_type, and the force_type *)
(* generate derives from the field name                                    *)
(***************************************************************************)
MaxRank == 6
AxisSizes == {3, 9, 10, 11, 1000, 1001}
ExampleShapes == {<<64, 64, 3>>, <<2, 1, 4000>>, <<1, 20, 4000>>, <<2, 4000>>, <<4000, 2>>}
Shapes == SeqsUpTo(AxisSizes, MaxRank) \cup ExampleShapes

\* one shape of each kind, and the rank-3 shape that meets an image rule and
\* the audio rule
KindShapes == {<<1, 64, 64, 3>>, <<16, 64, 64, 3>>, <<4000>>, <<2, 4000>>,
               <<1, 20, 4000>>, <<2, 1, 4000>>, <<1, 16, 64, 64, 3>>}

FieldNames == {
  <<"image">>, <<"Image">>, <<"MASK">>, <<"input", "_", "image">>,
  <<"mask", "_", "image">>, <<"image", "_", "1">>,
  <<"video">>, <<"image", "_", "video">>, <<"Video", "_", "mask">>,
  <<"audio", "_", "mask">>, <<"AUDIO">>, <<"prompt">>, <<"img">>, <<"frames">> }

ForceTypes == {"None", "image", "video", "audio", "auto"}

ClassifyCall(fn, param_name, tensor_data, force_type) ==
  [fn |-> fn, param_name |-> param_name, tensor_data |-> tensor_data,
   force_type |-> force_type]
ClassifyCalls ==
  {ClassifyCall("detect_tensor_type", <<>>, Tensor("T", sh), "None") : sh \in Shapes}
  \cup {ClassifyCall("generate", n, Tensor("T", sh), "None") :
          n \in FieldNames, sh \in KindShapes}
  \cup {ClassifyCall("upload_tensor_to_wavespeed", <<>>, Tensor("T", sh), f) :
          sh \in KindShapes, f \in ForceTypes}

ClassifyInit ==
  /\ GenerateIdle
  /\ _global_api_key = PyNone
  /\ env_key = PyNone
  /\ config_api_key = PyStr(<<"sk-key">>)
  /\ resolved = NoCall
  /\ UploadIdle
  /\ classify_call \in ClassifyCalls
  /\ tensor_type = "none"
  /\ PreviewIdle
  /\ ConvertIdle
  /\ CacheIdle

DetectTensorType ==
  /\ classify_call # NotCalled
  /\ classify_call.fn = "detect_tensor_type"
  /\ tensor_type = "none"
  /\ tensor_type' = detect_tensor_type(classify_call.tensor_data)
  /\ UNCHANGED <<upload_response, upload_result, classify_call, processed, preview,
               convert_call, converted>>
  /\ UNCHANGED <<genVars, credVars, cacheVars>>

\* Step 1.5, lines 862-867: a connected tensor
UploadConnectedTensor ==
  /\ classify_call # NotCalled
  /\ classify_call.fn = "generate"
  /\ tensor_type = "none"
  /\ is_tensor_or_image(classify_call.tensor_data)
  /\ LET force_type == IF should_force_image_upload(classify_call.param_name)
                       THEN "image" ELSE "None"
     IN /\ classify_call' = [classify_call EXCEPT !.force_type = force_type]
        /\ tensor_type' = tensor_type_of(classify_call.tensor_data, force_type)
  /\ UNCHANGED <<upload_response, upload_result, processed, preview,
               convert_call, converted>>
  /\ UNCHANGED <<genVars, credVars, cacheVars>>

\* upload_tensor_to_wavespeed(tensor_data, force_type) called with an
\* explicit force_type
UploadForcedTensor ==
  /\ classify_call # NotCalled
  /\ classify_call.fn = "upload_tensor_to_wavespeed"
  /\ tensor_type = "none"
  /\ tensor_type' = tensor_type_of(classify_call.tensor_data, classify_call.force_type)
  /\ UNCHANGED <<upload_response, upload_result, classify_call, processed, preview,
               convert_call, converted>>
  /\ UNCHANGED <<genVars, credVars, cacheVars>>

ClassifyNext ==
  \/ DetectTensorType
  \/ UploadConnectedTensor
  \/ UploadForcedTensor

ClassifySpec == ClassifyInit /\ [][ClassifyNext]_vars


(***************************************************************************)
(* The outputs of a job after generate: the selection, then the preview    *)
(* node on the selected value; and process_outputs on the same outputs     *)
(***************************************************************************)
usdz == Str(<<"https://", "x/m", ".usdz">>)
jpg  == Str(<<"https://", "x/c", ".jpg">>)
PreviewItems == {
  png, jpg, glb, usdz, mp4,
  Str(<<"https://", "x/i", ".svg">>),
  Str(<<"https://", "x/page">>),
  Str(<<" ", "hello world", " ">>),
  Str(<<" ">>),
  NonStr(<<"42">>) }

ContentTypes == {"none", "image", "video", "3d", "application"}

PreviewInit ==
  /\ pc = "select"
  /\ response \in {Response("dict", Outputs(TRUE, l)) : l \in SeqsUpTo(PreviewItems, MaxOutputs)}
  /\ api_key = PyStr(<<"sk-key">>)
  /\ _global_api_key = PyNone
  /\ env_key = PyNone
  /\ config_api_key = PyStr(<<"sk-key">>)
  /\ resolved = NoCall
  /\ UploadIdle
  /\ ClassifyIdle
  /\ PreviewIdle
  /\ ConvertIdle
  /\ CacheIdle
  /\ model_id = PyStr(<<"/api/v3/model">>)
  /\ request_json = <<>>
  /\ param_map = <<>>
  /\ connected = <<>>
  /\ kwargs = <<>>
  /\ request_json_dict = <<>>
  /\ i = 1
  /\ merged_params = <<>>
  /\ filtered_params = <<>>
  /\ net = <<DispatchEvent>>
  /\ output = RNone
  /\ error = <<>>

\* the preview node runs on the value generate returned
PreviewUniversal ==
  /\ pc = "done"
  /\ preview = NotCalled
  /\ \E content_type \in ContentTypes, video_ok \in BOOLEAN :
       preview' = preview_universal(output, content_type, video_ok)
  /\ UNCHANGED <<upload_response, upload_result, classify_call, tensor_type, processed,
               convert_call, converted>>
  /\ UNCHANGED <<genVars, credVars, cacheVars>>

ProcessOutputs ==
  /\ pc \in {"select", "done"}
  /\ processed = NotCalled
  /\ processed' = process_outputs(response.outputs)
  /\ UNCHANGED <<upload_response, upload_result, classify_call, tensor_type, preview,
               convert_call, converted>>
  /\ UNCHANGED <<genVars, credVars, cacheVars>>

PreviewNext ==
  \/ SelectOutput
  \/ PreviewUniversal
  \/ ProcessOutputs

PreviewSpec == PreviewInit /\ [][PreviewNext]_vars


(***************************************************************************)
(* convert_parameter_value on its own: the LoRA shorthand strings          *)
(***************************************************************************)
MaxPairs == 3

\* the comma-separated pieces a shorthand string is written from
LoraPairs == {
  <<"path1", ":", "0.5">>,
  <<"path1", ":", "abc">>,
  <<"path2">>,
  <<"path2", ":">>,
  <<" ", "path3", " ", ":", " ", "2", " ">>,
  <<"https", ":", "//hf/lora", ":", "0.8">>,
  <<":", "1">>,
  <<" ">>,
  <<>> }

\* ",".join(pairs)
RECURSIVE join(_)
join(pairs) ==
  IF pairs = <<>> THEN <<>>
  ELSE IF Len(pairs) = 1 THEN pairs[1]
  ELSE pairs[1] \o <<",">> \o join(Tail(pairs))

\* the members a structured value is built from: objects with both keys,
\* objects lacking one, and a number
loraA == PyDict(<<>>, PyStr(<<"a">>), PyInt(<<"1">>))
loraB == PyDict(<<>>, PyStr(<<"b">>), PyFloat(<<"0.8">>))
loraNoScale == PyDict(<<>>, PyStr(<<"b">>), Absent)
loraNoPath == PyDict(<<>>, Absent, PyInt(<<"1">>))
loraNamed == PyDict(<<"name">>, PyStr(<<"a">>), PyInt(<<"1">>))
LoraItems == {loraA, loraB, loraNoScale, loraNoPath, PyInt(<<"2">>)}

\* the JSON text of a member
json_dumps(item) ==
  CASE item = loraA       -> <<"{", "path:a,scale:1", "}">>
    [] item = loraB       -> <<"{", "path:b,scale:0.8", "}">>
    [] item = loraNoScale -> <<"{", "path:b", "}">>
    [] item = loraNoPath  -> <<"{", "scale:1", "}">>
    [] item = loraNamed   -> <<"{", "name:x,path:a,scale:1", "}">>
    [] item = EmptyDict   -> <<"{", "}">>
    [] item = PyInt(<<"2">>) -> <<"2">>
    [] OTHER              -> <<"{", "oops", "}">>
JsonArray(items) ==
  <<" ", "[">> \o join([j \in 1..Len(items) |-> json_dumps(items[j])]) \o <<"]">>

ConvertCall(form, value, param_type, pairs) ==
  [form |-> form, value |-> value, param_type |-> param_type, pairs |-> pairs]

ConvertCalls ==
  {ConvertCall("shorthand", PyStr(join(ps)), "lora-weight", ps) :
     ps \in SeqsUpTo(LoraPairs, MaxPairs)}
  \cup {ConvertCall("list", PyList(ps), "lora-weight", ps) :
          ps \in SeqsUpTo(LoraItems, MaxPairs)}
  \cup {ConvertCall("tuple", PyTuple(ps), "lora-weight", ps) :
          ps \in SeqsUpTo(LoraItems, 2)}
  \cup {ConvertCall("json_array", PyStr(JsonArray(ps)), "lora-weight", ps) :
          ps \in SeqsUpTo(LoraItems \cup {Absent}, MaxPairs)}
  \cup {ConvertCall("dict", d, "lora-weight", <<d>>) :
          d \in {loraA, loraNoScale, loraNoPath, loraNamed, EmptyDict}}
  \cup {ConvertCall("json_object", PyStr(json_dumps(d)), "lora-weight", <<d>>) :
          d \in {loraA, loraNoScale, loraNoPath, loraNamed, EmptyDict, Absent}}
  \cup {ConvertCall("other", v, "lora-weight", <<>>) : v \in {PyNone, PyInt(<<"2">>)}}

ConvertInit ==
  /\ GenerateIdle
  /\ _global_api_key = PyNone
  /\ env_key = PyNone
  /\ config_api_key = PyStr(<<"sk-key">>)
  /\ resolved = NoCall
  /\ UploadIdle
  /\ ClassifyIdle
  /\ PreviewIdle
  /\ convert_call \in ConvertCalls
  /\ converted = NotCalled
  /\ CacheIdle

ConvertParameterValue ==
  /\ convert_call # NotCalled
  /\ converted = NotCalled
  /\ converted' = convert_parameter_value(convert_call.value, convert_call.param_type)
  /\ UNCHANGED <<upload_response, upload_result, classify_call, tensor_type,
                 processed, preview, convert_call>>
  /\ UNCHANGED <<genVars, credVars, cacheVars>>

ConvertNext == ConvertParameterValue

ConvertSpec == ConvertInit /\ [][ConvertNext]_vars

(***************************************************************************)
(* The catalog cache and its handlers (wavespeed_api_endpoints.py)         *)
(***************************************************************************)
TTL == 300
MaxTasks == 2
MaxWaiting == 1
MaxNow == 400

CacheKeys == {"categories", "detail_m"}
\* what a fetcher gives: catalog data, None, or an exception
FetchedData == {"v1", "v2"}
FetchResults(key) ==
  IF key = "categories" THEN FetchedData \cup {"None"} ELSE FetchedData \cup {"raise"}
TimeSteps == {200}

\* dict.get(key)
dict_get(d, key) == IF key \in DOMAIN d THEN d[key] ELSE "None"

is_cache_valid(key) ==
  IF key \notin DOMAIN cache_time THEN FALSE
  ELSE (now - cache_time[key]) < TTL

get_cache(key, allow_stale) ==
  IF allow_stale THEN dict_get(_cache, key)
  ELSE IF is_cache_valid(key) THEN dict_get(_cache, key)
  ELSE "None"

\* the age in seconds, or None
NoAge == [known |-> FALSE, seconds |-> 0]
cache_age_seconds(key) ==
  IF key \notin DOMAIN cache_time THEN NoAge
  ELSE [known |-> TRUE, seconds |-> now - cache_time[key]]

set_cache(key, value) ==
  /\ _cache' = (key :> value) @@ _cache
  /\ cache_time' = (key :> now) @@ cache_time

Task(key, at) == [key |-> key, at |-> at]
RemoveAt(seq, j) == SubSeq(seq, 1, j - 1) \o SubSeq(seq, j + 1, Len(seq))

\* line 100: the test schedule_cache_refresh makes before create_task
refresh_is_running(key) == key \in _refreshing_keys
schedule_cache_refresh(key) ==
  IF refresh_is_running(key) THEN UNCHANGED tasks
  ELSE /\ Len(tasks) < MaxTasks
       /\ tasks' = Append(tasks, Task(key, "created"))

Reply(key, kind, data) == [key |-> key, kind |-> kind, data |-> data]

\* a cached value is served whatever its age
is_fresh_any_age(cached, age) == cached # "None"
\* the test "cached is not None and age is not None and age < ttl"
is_fresh(cached, age) == cached # "None" /\ age.known /\ age.seconds < TTL

\* lines 213-227, 246-260, 284-298: the part the three catalog handlers
\* share, up to the response or to the await of the fetcher
serve_cached_or_fetch(cache_key) ==
  LET cached == get_cache(cache_key, TRUE)
      age    == cache_age_seconds(cache_key)
  IN IF is_fresh(cached, age) THEN
       /\ reply' = Reply(cache_key, "data", cached)
       /\ UNCHANGED <<tasks, waiting>>
     ELSE IF cached # "None" THEN
       /\ schedule_cache_refresh(cache_key)
       /\ reply' = Reply(cache_key, "data", cached)
       /\ UNCHANGED waiting
     ELSE
       /\ Len(waiting) < MaxWaiting
       /\ waiting' = Append(waiting, cache_key)
       /\ UNCHANGED <<tasks, reply>>

\* GET /wavespeed/api/categories, up to its first await
get_model_categories ==
  /\ serve_cached_or_fetch("categories")
  /\ UNCHANGED <<_cache, cache_time, _refreshing_keys, now, refreshed>>
  /\ UNCHANGED <<genVars, credVars, callVars>>

\* ... and after "await fetch_model_categories_from_api()"
get_model_categories_fetched ==
  /\ \E j \in 1..Len(waiting) :
       /\ waiting[j] = "categories"
       /\ waiting' = RemoveAt(waiting, j)
  /\ \E categories \in FetchResults("categories") :
       IF categories # "None" THEN
         /\ set_cache("categories", categories)
         /\ reply' = Reply("categories", "data", categories)
       ELSE
         /\ reply' = Reply("categories", "data", "default_categories")
         /\ UNCHANGED <<_cache, cache_time>>
  /\ UNCHANGED <<_refreshing_keys, now, tasks, refreshed>>
  /\ UNCHANGED <<genVars, credVars, callVars>>

\* unquote(model_id).strip('/')
ModelIdArgs == {"", "m", "/m/"}
clean_model_id(raw_id) == IF raw_id = "/m/" THEN "m" ELSE raw_id
detail_key(clean_id) == IF clean_id = "m" THEN "detail_m" ELSE "detail_"

\* GET /wavespeed/api/model?model_id=..., up to its first await
get_model_detail ==
  /\ \E raw_id \in ModelIdArgs :
       IF raw_id = "" THEN
         /\ reply' = Reply("", "error", "Missing model_id parameter")
         /\ UNCHANGED <<tasks, waiting>>
       ELSE serve_cached_or_fetch(detail_key(clean_model_id(raw_id)))
  /\ UNCHANGED <<_cache, cache_time, _refreshing_keys, now, refreshed>>
  /\ UNCHANGED <<genVars, credVars, callVars>>

\* ... and after "await fetch_model_detail_from_api(model_id)"
get_model_detail_fetched ==
  /\ \E j \in 1..Len(waiting) :
       /\ waiting[j] = "detail_m"
       /\ waiting' = RemoveAt(waiting, j)
  /\ \E model_detail \in FetchResults("detail_m") :
       IF model_detail # "raise" THEN
         /\ set_cache("detail_m", model_detail)
         /\ reply' = Reply("detail_m", "data", model_detail)
       ELSE
         /\ reply' = Reply("detail_m", "error", "ModelDetailError")
         /\ UNCHANGED <<_cache, cache_time>>
  /\ UNCHANGED <<_refreshing_keys, now, tasks, refreshed>>
  /\ UNCHANGED <<genVars, credVars, callVars>>

\* line 86: the test refresh_cache_async makes when its task first runs
refresh_may_start_unchecked(key) == TRUE
refresh_may_start(key) == key \notin _refreshing_keys

\* refresh_cache_async, from the start of the task to "await fetcher()"
refresh_cache_async ==
  /\ \E j \in 1..Len(tasks) :
       /\ tasks[j].at = "created"
       /\ IF refresh_may_start(tasks[j].key) THEN
            /\ _refreshing_keys' = _refreshing_keys \cup {tasks[j].key}
            /\ tasks' = [tasks EXCEPT ![j].at = "fetching"]
          ELSE
            /\ tasks' = RemoveAt(tasks, j)
            /\ UNCHANGED _refreshing_keys
  /\ UNCHANGED <<_cache, cache_time, now, waiting, refreshed, reply>>
  /\ UNCHANGED <<genVars, credVars, callVars>>

\* line 96: "finally: _refreshing_keys.discard(key)"
after_refresh_keep(key) == _refreshing_keys
after_refresh(key) == _refreshing_keys \ {key}

\* the task of key after its fetcher returned or raised
refresh_cache_async_fetched(key) ==
  /\ \E j \in 1..Len(tasks) :
       /\ tasks[j] = Task(key, "fetching")
       /\ tasks' = RemoveAt(tasks, j)
  /\ \E data \in FetchResults(key) :
       /\ refreshed' = [key |-> key, data |-> data]
       /\ IF data \notin {"None", "raise"} THEN set_cache(key, data)
          ELSE UNCHANGED <<_cache, cache_time>>
  /\ _refreshing_keys' = after_refresh(key)
  /\ UNCHANGED <<now, waiting, reply>>
  /\ UNCHANGED <<genVars, credVars, callVars>>

refresh_categories_fetched == refresh_cache_async_fetched("categories")
refresh_detail_fetched == refresh_cache_async_fetched("detail_m")

\* time.time() moves on
Tick ==
  /\ \E d \in TimeSteps :
       /\ now + d <= MaxNow
       /\ now' = now + d
  /\ UNCHANGED <<_cache, cache_time, _refreshing_keys, tasks, waiting, refreshed, reply>>
  /\ UNCHANGED <<genVars, credVars, callVars>>

CacheInit ==
  /\ GenerateIdle
  /\ _global_api_key = PyNone
  /\ env_key = PyNone
  /\ config_api_key = PyStr(<<"sk-key">>)
  /\ resolved = NoCall
  /\ UploadIdle
  /\ ClassifyIdle
  /\ PreviewIdle
  /\ ConvertIdle
  /\ CacheIdle

CacheNext ==
  \/ get_model_categories
  \/ get_model_categories_fetched
  \/ get_model_detail
  \/ get_model_detail_fetched
  \/ refresh_cache_async
  \/ refresh_categories_fetched
  \/ refresh_detail_fetched
  \/ Tick

CacheSpec == CacheInit /\ [][CacheNext]_vars

\* the event loop runs every task that is ready, and every fetch ends: with
\* its data, with None or with an exception (a timeout at the latest)
CacheFairSpec ==
  /\ CacheSpec
  /\ WF_vars(refresh_cache_async)
  /\ WF_vars(refresh_categories_fetched)
  /\ WF_vars(refresh_detail_fetched)


(***************************************************************************)
(* generate called with the members of declared array parameters           *)
(***************************************************************************)
n_scales  == <<"scale", "s">>
n_scale_0 == <<"scale", "_", "0">>
n_scale_1 == <<"scale", "_", "1">>
n_scale_2 == <<"scale", "_", "2">>
T2 == Tensor("T2", <<1, 64, 64, 3>>)

MemberPool == {
  E(n_image_0, T1), E(n_image_0, urlA), E(n_image_1, T2), E(n_image1, urlB),
  E(n_scale_0, i0), E(n_scale_1, i512), E(n_scale_1, EmptyStr), E(n_scale_2, pyFalse) }
MemberKwargs == {kw \in SeqsUpTo(MemberPool, MaxKwargs) : DistinctKeys(kw)}
ArrayConfigs == {
  Config(<<>>, <<E(n_images, ArrayInfo("string")), E(n_scales, ArrayInfo("number"))>>),
  Config(<<E(n_prompt, hello)>>,
         <<E(n_images, ArrayInfo("absent")), E(n_scales, ArrayInfo("string"))>>) }

ArrayInit ==
  /\ pc = "start"
  /\ api_key = PyNone
  /\ _global_api_key = PyNone
  /\ env_key = PyNone
  /\ config_api_key = PyStr(<<"sk-key">>)
  /\ resolved = NoCall
  /\ CallIdle
  /\ model_id = PyStr(<<"/api/v3/model">>)
  /\ \E c \in ArrayConfigs : request_json = c.request_json /\ param_map = c.param_map
  /\ connected \in MemberKwargs
  /\ kwargs = connected
  /\ request_json_dict = <<>>
  /\ i = 0
  /\ merged_params = <<>>
  /\ filtered_params = <<>>
  /\ net = <<>>
  /\ response = NoResponse
  /\ output = RNone
  /\ error = <<>>

ArraySpec == ArrayInit /\ [][Next]_vars

(***************************************************************************)
(* Properties of the output selection                                      *)
(***************************************************************************)
\* an item "matches" an extension set when it is a string whose lower-cased
\* text contains one of the extensions
Matches(o, exts) == o.isStr /\ \E j \in 1..Len(o.toks) : LowerTok(o.toks[j]) \in exts
IsHttpString(o) == o.isStr /\ Len(o.toks) >= 1 /\ o.toks[1] \in {"http://", "https://"}
MatchIdx(outs, exts) == {j \in 1..Len(outs) : Matches(outs[j], exts)}
Least(S) == CHOOSE x \in S : \A y \in S : x <= y
\* the items of outs at the positions S, in list order
AtPositions(outs, S, l) ==
  /\ Len(l) = Cardinality(S)
  /\ \A x \in S : l[Cardinality({y \in S : y <= x})] = outs[x]

Selected == pc = "done"
OutList  == response.outputs.val

\* C1: for an output list of length >= 2 without a 3-D-model item the
\* selector returns the first video item; else the only image item, or the
\* list of all image items in order when there are several; else the first
\* audio item; else the first item that is not an http(s) string; else the
\* first item.
C1_PrioritySelection ==
  (Selected /\ response.outputs.present /\ Len(OutList) >= 2
     /\ MatchIdx(OutList, MODEL_3D_EXTS) = {}) =>
  LET V == MatchIdx(OutList, VIDEO_EXTS)
      I == MatchIdx(OutList, IMAGE_EXTS)
      A == MatchIdx(OutList, AUDIO_EXTS)
      T == {j \in 1..Len(OutList) : ~IsHttpString(OutList[j])}
  IN IF V # {} THEN output = RItem(OutList[Least(V)])
     ELSE IF Cardinality(I) = 1 THEN output = RItem(OutList[Least(I)])
     ELSE IF Cardinality(I) > 1 THEN output.tag = "list" /\ AtPositions(OutList, I, output.list)
     ELSE IF A # {} THEN output = RItem(OutList[Least(A)])
     ELSE IF T # {} THEN output = RItem(OutList[Least(T)])
     ELSE output = RItem(OutList[1])

\* an image precedes the video in the list, and the video is still selected
C1_Witness ==
  /\ Selected
  /\ OutList = <<png, Str(<<"http://", "x/e", ".MP4">>), png>>
  /\ output = RItem(Str(<<"http://", "x/e", ".MP4">>))

\* C2: an output list of length >= 2 that holds a string matching the
\* 3-D-model extension set is returned whole and in order, whatever else it
\* holds.
C2_3DReturnsWholeList ==
  (Selected /\ response.outputs.present /\ Len(OutList) >= 2
     /\ MatchIdx(OutList, MODEL_3D_EXTS) # {}) =>
  output = RList(OutList)

\* the 3-D model comes after a video and an image
C2_Witness ==
  /\ Selected
  /\ OutList = <<mp4, png, Str(<<"https://", "x/f", ".OBJ">>)>>
  /\ output = RList(OutList)

\* C3: with fewer than two outputs nothing is inferred: no output list, or an
\* empty one, gives None and generate returns without raising; a one-element
\* list gives that element, a lone 3-D-model URL included.
C3_ShortOutputLists ==
  (response.kind = "dict" /\ (~response.outputs.present \/ Len(OutList) < 2)) =>
    /\ pc \in {"select", "done"}
    /\ error = <<>>
    /\ (pc = "done" =>
          IF ~response.outputs.present \/ Len(OutList) = 0
          THEN output = RNone
          ELSE output = RItem(OutList[1]))

\* generate returned the lone 3-D-model URL as the bare item
C3_Witness ==
  /\ pc = "done"
  /\ connected # <<>>
  /\ OutList = <<glb>>
  /\ output = RItem(glb)
  /\ error = <<>>


(***************************************************************************)
(* Properties of the parameter assembly                                    *)
(***************************************************************************)
Dispatched == \E j \in 1..Len(net) : net[j].op = "dispatch"
CallerReady == truthy(api_key) /\ truthy(model_id)
HasField(params, name) == \E j \in 1..Len(params) : params[j].k = name
FieldOf(params, name) == (CHOOSE e \in Range(params) : e.k = name).v
SizeError(prefix, present, missing) ==
  Wrapped(<<"Size parameter '">> \o prefix
          \o <<"': ", present \o " is provided but " \o missing \o " is missing.">>)
SizeErrors(prefix) == {SizeError(prefix, "Width", "Height"), SizeError(prefix, "Height", "Width")}
\* the failures generate can report once the payload has passed validation
DispatchErrors == {Wrapped(TransportMsg), Wrapped(NoResponseMsg)}
\* the prefixes p for which p_width or p_height is a field of params
SizePrefixes(params) ==
  {SubSeq(params[j].k, 1, Len(params[j].k) - 2) :
     j \in {x \in 1..Len(params) : /\ Len(params[x].k) >= 2
                                   /\ params[x].k[Len(params[x].k) - 1] = "_"
                                   /\ params[x].k[Len(params[x].k)] \in {"width", "height"}}}
Unpaired(params) ==
  {p \in SizePrefixes(params) :
     HasField(params, p \o <<"_", "width">>) # HasField(params, p \o <<"_", "height">>)}

\* C4 as stated: defaults {"width": 512} with connected {"height": 512}
\* pass the pairing check, and defaults {"width": 512} with nothing connected
\* fail with a pairing error before dispatch.
C4_Original ==
  /\ (request_json = <<E(n_width, i512)>> /\ connected = <<E(n_height, i512)>>
        /\ pc = "raised" /\ CallerReady) => error \in DispatchErrors
  /\ (request_json = <<E(n_width, i512)>> /\ connected = <<>> /\ CallerReady) =>
        /\ ~Dispatched
        /\ pc \notin {"submit", "select", "done"}
        /\ pc = "raised" => error \in SizeErrors(<<>>)

\* C4 amended: defaults {"width": 512} pass the pairing check with connected
\* {"height": 512} and also with nothing connected (a bare "width" is not a
\* <prefix>_width field); defaults {"size_width": 512} with nothing connected
\* fail before dispatch with the pairing error naming "size" and the missing
\* height.
C4_BareWidthIsNotPaired ==
  /\ (request_json = <<E(n_width, i512)>> /\ connected \in {<<E(n_height, i512)>>, <<>>}
        /\ CallerReady) =>
        /\ pc = "raised" => error \in DispatchErrors
        /\ pc \notin {"start", "uploads", "arrays", "merge"} => filtered_params # <<>>
  /\ (request_json = <<E(n_size_width, i512)>> /\ connected = <<>> /\ CallerReady) =>
        /\ ~Dispatched
        /\ pc \notin {"submit", "select", "done"}
        /\ pc = "raised" => error = SizeError(<<"size">>, "Width", "Height")

C4_Witness ==
  /\ request_json = <<E(n_size_width, i512)>>
  /\ connected = <<>>
  /\ pc = "raised"
  /\ error = SizeError(<<"size">>, "Width", "Height")
  /\ net = <<>>

\* C5: the payload handed to the dispatcher has p_width exactly when it has
\* p_height, for every prefix p; a payload in which some prefix has only one
\* of the two is never dispatched: generate raises, the message naming an
\* unpaired prefix (the first in payload order) and the half that is missing.
C5_PairingInvariant ==
  /\ Dispatched => Unpaired(filtered_params) = {}
  /\ Unpaired(filtered_params) # {} =>
       /\ ~Dispatched
       /\ pc \in {"validate", "raised"}
       /\ pc = "raised" =>
            \E p \in Unpaired(filtered_params) :
              error = IF HasField(filtered_params, p \o <<"_", "width">>)
                      THEN SizeError(p, "Width", "Height")
                      ELSE SizeError(p, "Height", "Width")

\* the height is connected but empty, so after filtering only the width is
\* present
C5_Witness ==
  /\ pc = "raised"
  /\ request_json = <<E(n_size_width, i512)>>
  /\ connected = <<E(n_size_height, EmptyStr)>>
  /\ error = SizeError(<<"size">>, "Width", "Height")
  /\ ~Dispatched

\* C6: the payload handed to the dispatcher holds exactly the merged fields
\* whose value is not '', [] or None: none of these three remains, and 0 and
\* False stay with their value.
C6_EmptyValuesFiltered ==
  /\ \A j \in 1..Len(filtered_params) :
        filtered_params[j].v \notin {EmptyStr, EmptyList, PyNone}
  /\ \A j \in 1..Len(merged_params) :
        merged_params[j].v \in {i0, pyFalse} =>
          /\ HasField(filtered_params, merged_params[j].k)
          /\ FieldOf(filtered_params, merged_params[j].k) = merged_params[j].v
  /\ Range(filtered_params) =
        {e \in Range(merged_params) : e.v \notin {EmptyStr, EmptyList, PyNone}}
  /\ merged_params = <<E(n_prompt, EmptyStr), E(n_seed, i0), E(n_tags, EmptyList)>>
        => filtered_params = <<E(n_seed, i0)>>

C6_Witness ==
  /\ Dispatched
  /\ merged_params = <<E(n_prompt, EmptyStr), E(n_seed, i0), E(n_tags, EmptyList)>>
  /\ filtered_params = <<E(n_seed, i0)>>

\* the connected inputs that are members of the array parameter P: named
\* stem<i> or stem_<i>, with a value that is neither None nor ''
Stem(P) == IF P # <<>> /\ P[Len(P)] = "s" THEN SubSeq(P, 1, Len(P) - 1) ELSE P
MemberNames(P, n) == {Stem(P) \o <<IntStr(n)>>, Stem(P) \o <<"_", IntStr(n)>>}
MembersOf(P, kw) ==
  {[index |-> n, name |-> nm, value |-> FieldOf(kw, nm)] :
     <<n, nm>> \in {x \in (0..9) \X Keys(kw) :
                      /\ x[2] \in MemberNames(P, x[1])
                      /\ FieldOf(kw, x[2]) \notin {PyNone, EmptyStr}}}
StringArrays ==
  {param_map[j].k : j \in {x \in 1..Len(param_map) :
                             /\ param_map[x].v.isArray
                             /\ param_map[x].v.itemType \in {"string", "absent"}}}
ArraysDone == pc \in {"merge", "validate", "submit", "select", "done"}

IsIndexedMember(name) ==
  \E j \in 1..Len(param_map) :
    /\ param_map[j].v.isArray
    /\ \E n \in 0..9 : name \in MemberNames(param_map[j].k, n)
MergeDone == pc \in {"validate", "submit", "select", "done"}

\* C8 as stated: every connected input that is not an indexed array member
\* and is neither None nor '' is in the assembled payload with the connected
\* value, also a name such as image_size next to the array images; a
\* connected None or '' leaves the default.
C8_Original ==
  MergeDone =>
    \A j \in 1..Len(kwargs) :
      LET name == kwargs[j].k
          value == kwargs[j].v
      IN /\ (~IsIndexedMember(name) /\ value \notin {PyNone, EmptyStr}) =>
              (HasField(merged_params, name) /\ FieldOf(merged_params, name) = value)
         /\ (value \in {PyNone, EmptyStr} /\ HasField(request_json, name)) =>
              (HasField(merged_params, name)
                 /\ FieldOf(merged_params, name) = FieldOf(request_json, name))

\* C9 as stated: a failed upload of an array member does not fail generate.
C9_Original ==
  \A j \in 1..Len(net) :
    (net[j].op = "upload" /\ ~net[j].ok /\ IsIndexedMember(net[j].field)) =>
      (pc = "raised" => Dispatched)

IsMediaValue(v) == v.t \in {"tensor", "audio", "callable"}
EncodeFails(v) ==
  \/ v.t = "tensor" /\ v.s = <<"corrupt">>
  \/ v.t = "audio" /\ v.s \in {<<"wave_none">>, <<"wave_empty">>}
EncodeMsgs == {<<"cannot encode tensor">>, <<"Audio input missing waveform">>,
               <<"Audio waveform is empty">>}
UploadKind(v) == CASE v.t = "tensor" -> "tensor" [] v.t = "audio" -> "AUDIO"
                   [] OTHER -> "VHS_AUDIO"
UploadErrorHead(v, name) == Wrapped(<<"Failed to upload ", UploadKind(v), " for '">> \o name \o <<"': ">>)

ValidationError ==
  /\ pc = "raised"
  /\ \/ error = Wrapped(NoModelMsg)
     \/ /\ validate_size(filtered_params) # <<>>
        /\ error = Wrapped(validate_size(filtered_params))

\* C11: a validation failure (no model selected, or a width/height field
\* missing its pair) is reported before any network call: when generate
\* raises it, no upload request and no dispatch request has been sent.
C11_Original ==
  ValidationError => net = <<>>

\* no credential is stored in the places get_api_key_from_config looks at
CredentialAbsent == ~truthy(env_key) /\ ~truthy(config_api_key)

\* a connected input that Step 1.5 uploads
IsUploadedInput(e) ==
  \/ is_audio_dict(e.v)
  \/ try_get_vhs_audio_bytes(e.v, e.k) # PyNone
  \/ is_tensor_or_image(e.v)

\* C12: when credential resolution returns absent, generate fails with the
\* no-credential error before any network call (no upload and no dispatch
\* request is in the run), and every single upload checks the credential
\* before it sends its request: a step taken while the credential is absent
\* sends nothing.
C12_NoCredentialNoNetwork ==
  [][ /\ (pc = "start" /\ CredentialAbsent) =>
           /\ pc' = "raised"
           /\ error' = Wrapped(NoApiKeyMsg)
           /\ error' # Wrapped(NoModelMsg)
           /\ net' = <<>>
      /\ (pc \in {"uploads", "arrays"} /\ CredentialAbsent) => net' = net
      /\ (pc = "uploads" /\ CredentialAbsent /\ IsUploadedInput(kwargs[i])) =>
           pc' = "raised"
    ]_vars

\* generate was called with a connected tensor and no credential, and raised
\* the no-credential error
C12_Witness ==
  /\ pc = "raised"
  /\ CredentialAbsent
  /\ \E n \in 1..Len(connected) : IsUploadedInput(connected[n])
  /\ error = Wrapped(NoApiKeyMsg)
  /\ net = <<>>

\* the credential was deleted while generate was uploading: the next upload
\* raised without sending
C12_UploadRefused ==
  /\ pc = "raised"
  /\ truthy(api_key)
  /\ CredentialAbsent
  /\ \E n \in 1..Len(kwargs) :
       error = Wrapped(<<"Failed to upload ", "tensor", " for '">> \o kwargs[n].k
                       \o <<"': ">> \o NoApiKeyUploadMsg)


(***************************************************************************)
(* Properties of the credential resolution                                 *)
(***************************************************************************)
\* the precedence of the specification: runtime value, then persisted
\* config value, then environment variable
ThreeTier(runtime, config, env) ==
  IF truthy(runtime) THEN runtime
  ELSE IF truthy(config) THEN config
  ELSE IF truthy(env) THEN env
  ELSE PyNone

\* C13: the credential used for uploads and dispatch is the runtime-set
\* value if present, otherwise the persisted config value if present,
\* otherwise the environment variable; so with a persisted key and the
\* environment variable both set the persisted key is used, and a runtime
\* value, when set, is the one the predictor's uploads use.
C13_Original ==
  [][ resolved' # resolved =>
        resolved'.key = ThreeTier(_global_api_key, config_api_key, env_key) ]_vars


(***************************************************************************)
(* Properties of the upload gateway's answer                               *)
(***************************************************************************)
\* a field of the response that holds a value: not missing, null or empty
Present(v) == v # PyNone /\ v # EmptyStr

\* the order of the specification, the first match deciding
FirstMatch(body) ==
  IF body.kind = "str" THEN body.text
  ELSE IF body.kind # "dict" THEN PyNone
  ELSE IF Present(body.download_url) THEN body.download_url
  ELSE IF Present(body.url) THEN body.url
  ELSE IF body.data_is_dict /\ Present(body.data_download_url) THEN body.data_download_url
  ELSE IF body.data_is_dict /\ Present(body.data_url) THEN body.data_url
  ELSE PyNone

MatchesAShape(body) == body.kind = "str" \/ FirstMatch(body) # PyNone

\* C14: the upload response is resolved to a URL by first match: a bare
\* string response; else top-level download_url; else top-level url; else
\* data.download_url; else data.url.  A non-200 status, or a response of
\* none of these shapes, raises an upload failure and returns no URL.
C14_UrlByFirstMatch ==
  (upload_result # NotCalled /\ truthy(stored_key)) =>
    IF upload_response.status = 200 /\ MatchesAShape(upload_response.body)
    THEN /\ upload_result.ok
         /\ upload_result.val = FirstMatch(upload_response.body)
    ELSE /\ ~upload_result.ok
         /\ upload_result.val = PyNone
         /\ upload_result.msg \in {<<"Upload failed with status ">>,
                                   <<"Upload API returned no URL: ">>}

\* the answer has an empty download_url, no url, a data.download_url and a
\* data.url: the third shape decides
C14_Witness ==
  /\ upload_result # NotCalled
  /\ upload_response = HttpResponse(200, JsonDict(EmptyStr, PyNone, TRUE, u3, u4))
  /\ upload_result = Returned(u3, TRUE)


(***************************************************************************)
(* Properties of the tensor classification                                 *)
(***************************************************************************)
Classified(fn) ==
  /\ classify_call # NotCalled
  /\ classify_call.fn = fn
  /\ tensor_type # "none"
ShapeOf == classify_call.tensor_data.shape

\* the field name contains the word, whatever its case
NameHas(word) ==
  \E k \in 1..Len(classify_call.param_name) :
    LowerTok(classify_call.param_name[k]) = word

\* C15: a connected tensor whose field name contains "image" or "mask"
\* (case-insensitive) and neither "video" nor "audio" is encoded as an image
\* whatever its shape; under every other field name the kind is the
\* classifier's result for the shape; an explicit forced kind of image,
\* video or audio always wins over the classifier.
C15_ForcedKind ==
  /\ Classified("generate") =>
       IF (NameHas("image") \/ NameHas("mask")) /\ ~NameHas("video") /\ ~NameHas("audio")
       THEN tensor_type = "image"
       ELSE tensor_type = detect_tensor_type(classify_call.tensor_data)
  /\ (Classified("upload_tensor_to_wavespeed")
      /\ classify_call.force_type \in {"image", "video", "audio"}) =>
       tensor_type = classify_call.force_type

\* a video-shaped tensor connected to the field "MASK" is encoded as an image
C15_Witness ==
  /\ Classified("generate")
  /\ classify_call.param_name = <<"MASK">>
  /\ ShapeOf = <<16, 64, 64, 3>>
  /\ detect_tensor_type(classify_call.tensor_data) = "video"
  /\ tensor_type = "image"

\* C16: detect_tensor_type is total: for every shape of rank 0..6 it returns
\* image, video or audio; rank 1 is audio, rank 5 is video, rank 4 is video
\* iff the leading axis is > 10 (else image), rank 2 is audio iff one axis
\* is < 10 and the other > 1000 (else image; a shape and its transpose get
\* the same result), and every other rank except 3 is image.
C16_DetectByRank ==
  Classified("detect_tensor_type") =>
    LET sh == ShapeOf
        r  == Len(sh)
    IN /\ tensor_type \in {"image", "video", "audio"}
       /\ r = 1 => tensor_type = "audio"
       /\ r = 5 => tensor_type = "video"
       /\ r = 4 => tensor_type = (IF sh[1] > 10 THEN "video" ELSE "image")
       /\ r = 2 =>
            /\ tensor_type = (IF \E a, b \in {1, 2} : a # b /\ sh[a] < 10 /\ sh[b] > 1000
                              THEN "audio" ELSE "image")
            /\ tensor_type = detect_tensor_type(Tensor("T", <<sh[2], sh[1]>>))
       /\ r \notin {1, 2, 3, 4, 5} => tensor_type = "image"

\* time-major audio (T, C): the second orientation of the rank-2 rule
C16_Witness ==
  /\ Classified("detect_tensor_type")
  /\ ShapeOf = <<1001, 9>>
  /\ tensor_type = "audio"

\* C17: a rank-3 shape (a, b, c) is decided by the first rule that matches:
\* c in {1,3,4}, a > 10, b > 10 -> image; a in {1,3,4}, b > 10, c > 10 ->
\* image; a < 10, c > 1000 -> audio; otherwise image.  So (64, 64, 3) is
\* image, (2, 1, 4000) is audio and (1, 20, 4000) is image.
C17_Rank3Rules ==
  (Classified("detect_tensor_type") /\ Len(ShapeOf) = 3) =>
    LET a == ShapeOf[1]
        b == ShapeOf[2]
        c == ShapeOf[3]
        ImageRule == \/ (c \in {1, 3, 4} /\ a > 10 /\ b > 10)
                     \/ (a \in {1, 3, 4} /\ b > 10 /\ c > 10)
        AudioRule == a < 10 /\ c > 1000
    IN /\ ImageRule => tensor_type = "image"
       /\ (~ImageRule /\ AudioRule) => tensor_type = "audio"
       /\ (~ImageRule /\ ~AudioRule) => tensor_type = "image"
       /\ ShapeOf = <<64, 64, 3>> => tensor_type = "image"
       /\ ShapeOf = <<2, 1, 4000>> => tensor_type = "audio"
       /\ ShapeOf = <<1, 20, 4000>> => tensor_type = "image"

\* (1, 20, 4000) meets the second image rule and the audio rule
C17_Witness ==
  /\ Classified("detect_tensor_type")
  /\ ShapeOf = <<1, 20, 4000>>
  /\ tensor_type = "image"


(***************************************************************************)
(* Properties of the outputs of a 3-D job                                  *)
(***************************************************************************)
\* the output list holds a URL the selector's 3-D extension set matches
Has3DUrl == \E j \in 1..Len(OutList) : _is_3d_model_url(OutList[j])

\* C18: process_outputs uses the extension sets of the selector and the same
\* 3-D exception: for every output list with a URL that the selector's 3-D
\* extension set matches, model_3d_url is set, the image URLs of the list
\* are returned as image_urls, and no image is converted (image is None).
C18_Original ==
  (processed # NotCalled /\ Has3DUrl) =>
    /\ processed.model_3d_url # EmptyText
    /\ processed.image_urls = SelectSeq(OutList, _is_image_url)
    /\ processed.image = NoImage

\* C19: for every output list of length >= 2 with a 3-D-model URL, the
\* selection followed by the preview node converts no image of the list to
\* a tensor: the preview's image output is None, and every image URL and
\* every 3-D URL of the list is shown as a UI preview entry.
C19_PreviewOf3DList ==
  (preview # NotCalled /\ Len(OutList) >= 2 /\ Has3DUrl) =>
    /\ output = RList(OutList)
    /\ preview.image = NoImage
    /\ \A j \in 1..Len(OutList) :
         /\ _is_image_url(OutList[j]) =>
              \E e \in 1..Len(preview.ui) :
                /\ preview.ui[e].type \in {"image", "image_gallery"}
                /\ \E k \in 1..Len(preview.ui[e].urls) : preview.ui[e].urls[k] = OutList[j]
         /\ _is_3d_model_url(OutList[j]) =>
              \E e \in 1..Len(preview.ui) :
                preview.ui[e] = Entry("3d", <<OutList[j]>>)

\* two preview images and a .usdz model: a gallery and a 3-D entry, no tensor
C19_Witness ==
  /\ preview # NotCalled
  /\ OutList = <<png, usdz, jpg>>
  /\ preview = PreviewResult(<<Entry("image_gallery", <<png, jpg>>), Entry("3d", <<usdz>>)>>,
                             NoImage, FALSE)


(***************************************************************************)
(* Properties of the LoRA shorthand                                        *)
(***************************************************************************)
\* a pair read as path[:scale], the scale being what follows the first
\* colon; blanks around the path and the scale do not count
NoBlanks(toks) == SelectSeq(toks, LAMBDA c : c # " ")
BeforeColon(pair) ==
  IF Contains(pair, ":") THEN split(pair, ":")[1] ELSE pair
AfterColon(pair) == SubSeq(pair, Len(BeforeColon(pair)) + 2, Len(pair))
ScaleOmitted(pair) == ~Contains(pair, ":")
ScaleNumeric(pair) ==
  /\ Contains(pair, ":")
  /\ NoBlanks(AfterColon(pair)) \in {<<"0">>, <<"1">>, <<"2">>, <<"0.5">>, <<"0.8">>}
ScaleValue(pair) ==
  IF ScaleOmitted(pair) THEN <<"1", ".0">>
  ELSE CASE NoBlanks(AfterColon(pair)) = <<"0">> -> <<"0", ".0">>
         [] NoBlanks(AfterColon(pair)) = <<"1">> -> <<"1", ".0">>
         [] NoBlanks(AfterColon(pair)) = <<"2">> -> <<"2", ".0">>
         [] OTHER -> NoBlanks(AfterColon(pair))
KeptPairs(pairs) ==
  SelectSeq(pairs, LAMBDA q : NoBlanks(q) # <<>> /\ (ScaleOmitted(q) \/ ScaleNumeric(q)))

\* C20: convert_parameter_value with type lora-weight on a path:scale
\* shorthand string does not raise and returns, in input order, one
\* {path, scale} entry per comma-separated non-empty pair whose scale is
\* numeric or omitted (an omitted scale is 1.0); a pair with a non-numeric
\* scale such as "path1:abc" is dropped and the other pairs are kept.
C20_LoraShorthand ==
  (converted # NotCalled /\ convert_call.param_type = "lora-weight"
     /\ convert_call.form = "shorthand") =>
    LET kept == KeptPairs(convert_call.pairs) IN
    /\ converted.t = "list"
    /\ Len(converted.l) = Len(kept)
    /\ \A j \in 1..Len(kept) :
         converted.l[j] = LoraEntry(strip(BeforeColon(kept[j])), ScaleValue(kept[j]))

\* "path1:abc,path2,path1:0.5": the first pair is dropped, the others kept
C20_Witness ==
  /\ converted # NotCalled
  /\ convert_call.value = PyStr(<<"path1", ":", "abc", ",", "path2", ",", "path1", ":", "0.5">>)
  /\ converted = PyList(<<LoraEntry(<<"path2">>, <<"1", ".0">>),
                          LoraEntry(<<"path1">>, <<"0.5">>)>>)


(***************************************************************************)
(* Properties of the structured LoRA forms                                 *)
(***************************************************************************)
IsObject(item) == item.t = "dict"
HasBothKeys(item) == item.l[1] # Absent /\ item.l[2] # Absent
StructuredCall ==
  /\ converted # NotCalled
  /\ convert_call.param_type = "lora-weight"
  /\ convert_call.form \in {"list", "json_array"}
  /\ \A j \in 1..Len(convert_call.pairs) : IsObject(convert_call.pairs[j])

\* C21: convert_parameter_value with type lora-weight, given a list of
\* objects or a JSON-encoded array string of objects, returns exactly the
\* entries that have both path and scale, in order: the malformed entries
\* are discarded and the well-formed ones kept, the field is never emptied
\* because of a malformed neighbour.
C21_Original ==
  StructuredCall =>
    converted = PyList(SelectSeq(convert_call.pairs, HasBothKeys))


(***************************************************************************)
(* Properties of the failure report                                        *)
(***************************************************************************)
FailedPrefix == "WaveSpeedAIPredictor failed: "
\* the text of the error that ended the run, read off the stage it ended in
UploadFailedAt(j) ==
  <<"Failed to upload ", UploadKind(kwargs[j].v), " for '">> \o kwargs[j].k \o <<"': ">>
UnderlyingIs(text) ==
  IF ~truthy(api_key) THEN text = NoApiKeyMsg
  ELSE IF ~truthy(model_id) THEN text = NoModelMsg
  ELSE IF Dispatched
  THEN text = (IF response.kind = "raise" THEN TransportMsg ELSE NoResponseMsg)
  ELSE IF filtered_params # <<>> THEN text = validate_size(filtered_params)
  ELSE /\ i \in 1..Len(kwargs)
       /\ IsMediaValue(kwargs[i].v)
       /\ IsPrefix(UploadFailedAt(i), text)
       /\ Len(text) > Len(UploadFailedAt(i))
C22_Outcome ==
  /\ (pc = "raised") <=> (error # <<>>)
  /\ pc = "raised" =>
       /\ output = RNone
       /\ Len(error) >= 2
       /\ error[1] = FailedPrefix
       /\ UnderlyingIs(Tail(error))
  /\ pc = "done" =>
       /\ Dispatched
       /\ response.kind = "dict"
       /\ output = _select_smart_output(response.outputs)
C22_Step ==
  /\ pc \in {"raised", "done"} => UNCHANGED <<pc, error, output>>
  /\ error' # error => (error = <<>> /\ pc' = "raised")
  /\ output' # output => pc' = "done"

\* C22: every failure inside generate (missing credential, no model, encode
\* or upload failure, pairing failure, dispatch failure, empty response)
\* reaches the caller as one exception whose message is
\* "WaveSpeedAIPredictor failed: " followed by the text of the underlying
\* error; a run ends either with the returned result or with that
\* exception, raised once, and nothing else.
C22_WrappedOrReturned == []C22_Outcome /\ [][C22_Step]_vars

\* the dispatcher raised: its text is reported behind the prefix
C22_Witness ==
  /\ pc = "raised"
  /\ Dispatched
  /\ response.kind = "raise"
  /\ error = <<FailedPrefix, "transport error">>


(***************************************************************************)
(* Properties of the catalog cache                                         *)
(***************************************************************************)
FetchingFor(key) == {j \in 1..Len(tasks) : tasks[j] = Task(key, "fetching")}
CreatedFor(key, ts) == Len(SelectSeq(ts, LAMBDA t : t = Task(key, "created")))
C23_OneFetcher ==
  \A key \in CacheKeys :
    /\ Cardinality(FetchingFor(key)) <= 1
    /\ (key \in _refreshing_keys) <=> (FetchingFor(key) # {})
C23_NoOpInFlight ==
  \A key \in CacheKeys :
    key \in _refreshing_keys => CreatedFor(key, tasks') <= CreatedFor(key, tasks)

\* C23: schedule_cache_refresh creates no task while a refresh of the same
\* key is in flight, and under every interleaving of handlers and refresh
\* tasks at most one background fetcher per cache key is running at any
\* time, also when two handlers scheduled a refresh of the same stale key
\* before the first task started.
C23_SingleRefresh == []C23_OneFetcher /\ [][C23_NoOpInFlight]_vars

\* two tasks were created for the stale key before either ran; the first
\* is fetching, the second has not started yet
C23_Witness ==
  /\ tasks = <<Task("categories", "fetching"), Task("categories", "created")>>
  /\ _refreshing_keys = {"categories"}


(***************************************************************************)
(* Properties of the order of generate's steps                             *)
(***************************************************************************)
DispatchAt(j) == j \in 1..Len(net) /\ net[j].op = "dispatch"
UploadedBefore(name, d) ==
  \E j \in 1..(d - 1) : net[j] = UploadEvent(name, TRUE)
\* the requests of the run so far are in order: uploads, then one dispatch
C24_NetOrder ==
  \A d \in 1..Len(net) :
    DispatchAt(d) =>
      /\ d = Len(net)
      /\ \A j \in 1..(d - 1) : net[j].op = "upload" /\ net[j].ok
      /\ \A j \in 1..Len(connected) :
           IsUploadedInput(connected[j]) => UploadedBefore(connected[j].k, d)
      /\ validate_size(filtered_params) = <<>>
C24_SelectionAfterResponse ==
  (output # RNone \/ pc \in {"select", "done"}) =>
    (Dispatched /\ response.kind = "dict")
C24_Step ==
  /\ net' # net /\ DispatchAt(Len(net')) =>
       (pc = "submit" /\ error = <<>> /\ ~Dispatched)
  /\ output' # output => (pc = "select" /\ Dispatched /\ response.kind = "dict")
  /\ (pc = "raised" /\ ~Dispatched) => net' = net

\* C24: in every run of generate all uploads of connected media are
\* complete before the request is dispatched (a failed upload ends the
\* run), the request is dispatched at most once, the output is selected
\* only after the dispatcher returned a response, and a run in which an
\* assembly step failed issues no dispatch.
C24_StepsInOrder ==
  /\ [](C24_NetOrder /\ C24_SelectionAfterResponse)
  /\ [][C24_Step]_vars

\* a tensor and an AUDIO dict were uploaded, then the request dispatched and
\* the output selected
C24_Witness ==
  /\ pc = "done"
  /\ Len(net) = 3
  /\ net[1].op = "upload" /\ net[2].op = "upload" /\ net[3].op = "dispatch"


(***************************************************************************)
(* Properties of the members of a declared array parameter                 *)
(***************************************************************************)
DeclaredArrays == array_params_of(param_map)
IsMemberOf(name, array_param_name) ==
  pattern_match(singular_prefix(array_param_name), name) # <<>>
IndexOf(name, array_param_name) ==
  int(pattern_match(singular_prefix(array_param_name), name))
MemberUploadAt(x, array_param_name) ==
  /\ net[x].op = "upload"
  /\ IsMemberOf(net[x].field, array_param_name)

\* C25: the tensor/audio members of a declared array parameter are uploaded
\* in ascending index order: for members i < j that both need upload, the
\* upload request of member i is issued before that of member j, whatever
\* the order of the connected inputs.
C25_Original ==
  \A a \in 1..Len(DeclaredArrays) :
    \A x, y \in 1..Len(net) :
      (x < y /\ MemberUploadAt(x, DeclaredArrays[a].k)
             /\ MemberUploadAt(y, DeclaredArrays[a].k)) =>
        IndexOf(net[x].field, DeclaredArrays[a].k) <= IndexOf(net[y].field, DeclaredArrays[a].k)

\* the members of an array parameter among the connected inputs whose raw
\* value is neither None nor '', in index order
SuppliedMembers(array_param_name) ==
  sort_by_index(array_members_of(connected, singular_prefix(array_param_name)))
ScalarMembersOnly(array_param_name) ==
  \A j \in 1..Len(SuppliedMembers(array_param_name)) :
    SuppliedMembers(array_param_name)[j].value.t \in {"str", "int", "float", "bool"}

\* C26: for a declared array parameter with item type string or number the
\* reconstructed array has exactly one element per member whose raw value
\* is not None or '', in index order, each the coerced value of its member:
\* a member 0 or False contributes an element.
C26_Original ==
  ArraysDone =>
    \A a \in 1..Len(DeclaredArrays) :
      LET name == DeclaredArrays[a].k
          type == item_type_of(DeclaredArrays[a].v)
          ms   == SuppliedMembers(name)
      IN (type \in {"string", "number"} /\ ScalarMembersOnly(name) /\ ms # <<>>) =>
           /\ HasField(request_json_dict, name)
           /\ FieldOf(request_json_dict, name) =
                PyList([j \in 1..Len(ms) |-> convert_parameter_value(ms[j].value, type)])

\* C27: the dispatched payload has no indexed member field of a declared
\* array parameter: for every declared array with stem s and every index i
\* neither s<i> nor s_<i> is a key of the payload, whether the member was
\* supplied as a URL string or as a tensor that was uploaded.
C27_Original ==
  Dispatched =>
    \A a \in 1..Len(DeclaredArrays) :
      \A j \in 1..Len(filtered_params) :
        ~IsMemberOf(filtered_params[j].k, DeclaredArrays[a].k)


(***************************************************************************)
(* Properties of the uploaded media in the payload                         *)
(***************************************************************************)
IsTopLevel(name) ==
  \A a \in 1..Len(DeclaredArrays) : ~IsMemberOf(name, DeclaredArrays[a].k)
IsUrlValue(v) == v.t = "str" /\ v.s # <<>>

\* C28: an upload either raises or gives a non-empty URL, so whenever
\* generate dispatches, every top-level connected tensor or audio input is
\* in the dispatched payload under its field name with a non-empty URL (the
\* empty-value filter never removes a media field).
C28_Original ==
  Dispatched =>
    \A j \in 1..Len(connected) :
      (IsUploadedInput(connected[j]) /\ IsTopLevel(connected[j].k)) =>
        /\ HasField(filtered_params, connected[j].k)
        /\ IsUrlValue(FieldOf(filtered_params, connected[j].k))


(***************************************************************************)
(* Properties of the catalog handlers                                      *)
(***************************************************************************)
Cached(key) == key \in DOMAIN _cache /\ key \in DOMAIN cache_time
AgeOf(key) == now - cache_time[key]
Younger(key) == Cached(key) /\ AgeOf(key) < TTL
Older(key) == Cached(key) /\ AgeOf(key) > TTL
WaitingFor(key, w) == Len(SelectSeq(w, LAMBDA k : k = key))
TasksFor(key, ts) == Len(SelectSeq(ts, LAMBDA t : t.key = key))
\* a step in which a handler takes a request for the key: it answers, or
\* suspends in a fetch, or creates a refresh task
RequestStep(key) ==
  /\ Len(waiting') >= Len(waiting)
  /\ \/ reply' # reply /\ reply'.key = key
     \/ WaitingFor(key, waiting') > WaitingFor(key, waiting)
     \/ TasksFor(key, tasks') > TasksFor(key, tasks)
\* a step in which a fetch for the key gave data
FetchedStep(key) ==
  \/ /\ Len(waiting') < Len(waiting)
     /\ reply' = Reply(key, "data", reply'.data)
     /\ reply'.data \in FetchedData
  \/ /\ TasksFor(key, tasks') < TasksFor(key, tasks)
     /\ key \in _refreshing_keys
     /\ Cached(key)' /\ (~Cached(key) \/ _cache'[key] # _cache[key]
                                       \/ cache_time'[key] # cache_time[key])
C29_Step ==
  \A key \in CacheKeys :
    /\ (Younger(key) /\ RequestStep(key)) =>
         /\ reply' = Reply(key, "data", _cache[key])
         /\ tasks' = tasks
         /\ waiting' = waiting
         /\ UNCHANGED <<_cache, cache_time>>
    /\ (Older(key) /\ RequestStep(key)) =>
         /\ reply' = Reply(key, "data", _cache[key])
         /\ waiting' = waiting
         /\ key \in _refreshing_keys \/ tasks' = Append(tasks, Task(key, "created"))
         /\ UNCHANGED <<_cache, cache_time>>
    /\ WaitingFor(key, waiting') > WaitingFor(key, waiting) => ~Cached(key)
    /\ FetchedStep(key) =>
         /\ Cached(key)'
         /\ _cache'[key] \in FetchedData
         /\ cache_time'[key] = now'

\* C29: a request for a key whose entry is younger than the 5-minute TTL is
\* answered from the cache without any fetch; a request for a key whose
\* entry is older is answered at once with the stale value and a background
\* refresh is scheduled; only a request for a key without an entry waits
\* for a fetch; a fetch that succeeds stores the value with a fresh
\* timestamp.
C29_StaleWhileRevalidate == [][C29_Step]_vars

\* the stale value was served and a refresh task created for it
C29_Witness ==
  /\ Older("categories")
  /\ reply = Reply("categories", "data", _cache["categories"])
  /\ tasks = <<Task("categories", "created")>>
  /\ waiting = <<>>

\* a step in which the refresh task of the key ends after its fetch
RefreshEnds(key) ==
  Cardinality({j \in 1..Len(tasks') : tasks'[j] = Task(key, "fetching")})
    < Cardinality(FetchingFor(key))
RefreshFailed(r) == r.data \in {"None", "raise"}
C30_Step ==
  \A key \in CacheKeys :
    RefreshEnds(key) =>
      /\ refreshed'.key = key
      /\ key \notin _refreshing_keys'
      /\ RefreshFailed(refreshed') => UNCHANGED <<_cache, cache_time>>
InFlight(key) == key \in _refreshing_keys

\* C30: a background refresh whose fetcher raises or returns None leaves
\* the cached value and its timestamp unchanged, and every background
\* refresh, failed or not, removes its key from the in-flight set when it
\* ends: a key that is in flight is eventually not in flight, so a later
\* schedule call can start a new refresh.
C30_RefreshEnds ==
  /\ [][C30_Step]_vars
  /\ \A key \in CacheKeys : InFlight(key) ~> ~InFlight(key)

\* the refresh of a cached key failed: the entry is still there, the
\* marker is gone
C30_Witness ==
  /\ refreshed = [key |-> "categories", data |-> "None"]
  /\ Cached("categories")
  /\ ~InFlight("categories")
  /\ tasks = <<>>

=============================================================================
